---- MODULE Spec2Model ----
(***************************************************************************)
(* A model of kuberos: the OIDC login handshake (Login and KubeCfg HTTP     *)
(* handlers), the stateless state token (defaultStateFn) and the claims    *)
(* extractor (oidcExtractor.Process).                                      *)
(*                                                                         *)
(* Strings are sequences of one-character strings; a literal phrase of the *)
(* source ("invalid state parameter") is a one-element sequence holding    *)
(* the phrase, so that messages concatenate with \o as in the source.       *)
(***************************************************************************)
EXTENDS Integers, Sequences, FiniteSets, TLC

VARIABLES
    h,            \* Instances -> Handlers: the handler set of each server instance
    req,          \* the request served last: [kind, inst, r]
    rsp,          \* the response written for it: [status, body, ctype, location]
    calls,        \* the extractor invocations made while serving it
    flow,         \* history: the first Login served, [inst, r, state], or NoFlow
    flowExchanges,\* history: extractor invocations by callbacks carrying flow.state
    flowCompleted,\* history: callbacks carrying flow.state that ended in 200
    fnReq,        \* state function study: the request the function was applied to
    fnSecret,     \*   the secret it was built with
    fnTok,        \*   the token of defaultStateFn (kuberos.go:74)
    fnTokRemote,  \*   the token of the variant hashing the raw RemoteAddr (kuberos.go:389)
    ho,           \* the options NewHandlers was called with, in order
    snIn,         \* scope study: the provider's metadata and the operator's extra scopes
    snOut,        \*   what OfflineAsScope and ScopeRequests.Get returned for them
    pIn,          \* extractor study: the extractor, the config, the code and the provider
    pOut,         \*   what Process returned for them
    tmpl,         \* the kubecfg template loaded at start-up and the CA file on disk
    treq,         \* the Template request served last: [kind, form, env, echo]
    trsp,         \* the response written for it and the configuration built
    rd,           \* redirect study: a Login and a callback request and their redirect URLs
    srv,          \* main: the server, the shutdown routine, its context and its goroutines
    mem,          \* slice study: the backing arrays behind DefaultScopes and Get's results
    conc          \* concurrent serving: the start-up values and the requests in flight

vars == <<h, req, rsp, calls, flow, flowExchanges, flowCompleted,
          fnReq, fnSecret, fnTok, fnTokRemote, ho, snIn, snOut, pIn, pOut,
          tmpl, treq, trsp, rd, srv, mem, conc>>

hsVars == <<h, ho, req, rsp, calls, flow, flowExchanges, flowCompleted>>
fnVars == <<fnReq, fnSecret, fnTok, fnTokRemote>>
snVars == <<snIn, snOut>>
pVars == <<pIn, pOut>>
tVars == <<tmpl, treq, trsp>>
mVars == <<rd, srv, mem, conc>>

----------------------------------------------------------------------------
(* Bounds *)

MaxLen == 2       \* longest host / user agent / address of the state function study
MaxClock == 3     \* last tick of the clock main runs by
MaxInflight == 1  \* most requests in flight on the server at once
MaxQuits == 1     \* most GETs served by the shutdown endpoint
MaxConcurrent == 2 \* most requests the server serves at once
MaxGets == 2      \* most calls of ScopeRequests.Get in flight or returned
MaxXFF == 2       \* most X-Forwarded-For values on one request
MaxReplay == 2    \* most extractor invocations counted for one flow
MaxOptions == 2   \* most options passed to NewHandlers
MaxScopes == 2    \* longest scopes_supported list / list of extra scopes

----------------------------------------------------------------------------
(* Strings *)

Char == {"a", "b"}

RECURSIVE StrUpTo(_)
StrUpTo(n) ==
    IF n = 0 THEN {<<>>}
    ELSE LET S == StrUpTo(n - 1) IN S \cup {Append(s, c) : s \in S, c \in Char}

Str == StrUpTo(MaxLen)

\* s occurs in t as a contiguous, non-empty run
Contains(t, s) ==
    /\ Len(s) > 0
    /\ \E i \in 1..Len(t) :
          /\ i + Len(s) - 1 <= Len(t)
          /\ SubSeq(t, i, i + Len(s) - 1) = s

HasPrefix(t, s) == Len(s) <= Len(t) /\ SubSeq(t, 1, Len(s)) = s
HasSuffix(t, s) == Len(s) <= Len(t) /\ SubSeq(t, Len(t) - Len(s) + 1, Len(t)) = s

----------------------------------------------------------------------------
(* Constants of the source *)

DefaultKubeCfgEndpoint == <<"/ui">>
schemeHTTP == "http"
schemeHTTPS == "https"

ErrInvalidState == <<"invalid state parameter">>
ErrMissingCode == <<"response missing authorization code">>
ErrMissingIDToken == <<"response missing ID token">>

StatusSeeOther == 303
StatusOK == 200
StatusBadRequest == 400
StatusForbidden == 403
StatusInternalServerError == 500

ScopeOpenID == "openid"
ScopeOfflineAccess == "offline_access"
DefaultScopes == <<ScopeOpenID, "profile", "email">>
AccessTypeOffline == [key |-> "access_type", value |-> "offline"]

----------------------------------------------------------------------------
(* Requests *)

\* r.FormValue(key): the empty string when the parameter is absent
FormValue(r, key) == r.form[key]

EmptyForm ==
    [state |-> <<>>, error |-> <<>>, error_description |-> <<>>,
     error_uri |-> <<>>, code |-> <<>>]

\* http.Request.UserAgent()
UserAgent(r) == r.ua

\* The address the state function hashes: the last X-Forwarded-For value
\* when the header is supplied, the connection's RemoteAddr otherwise.
ResolvedRemote(r) ==
    IF Len(r.xff) > 0 THEN r.xff[Len(r.xff)] ELSE r.remoteAddr

\* sha256 followed by %x, taken as injective on the bytes written: the
\* input tagged with a character no request string contains.
HexSha256(bytes) == <<"#">> \o bytes

\* Slips of the state function: the raw remote address is hashed although a
\* forwarded address is supplied; the user agent is left out of the hash;
\* the first forwarded address is taken instead of the last.
defaultStateFn_RawRemote(secret, r) ==
    HexSha256(secret \o r.host \o r.remoteAddr \o UserAgent(r))

defaultStateFn_NoUserAgent(secret, r) ==
    HexSha256(secret \o r.host \o ResolvedRemote(r))

defaultStateFn_FirstXFF(secret, r) ==
    HexSha256(secret \o r.host
                \o (IF Len(r.xff) > 0 THEN r.xff[1] ELSE r.remoteAddr)
                \o UserAgent(r))

\* defaultStateFn(secret)(r)
defaultStateFn(secret, r) ==
    HexSha256(secret \o r.host \o ResolvedRemote(r) \o UserAgent(r))

\* The variant of defaultStateFn that hashes the raw RemoteAddr
defaultStateFnRemoteAddr(secret, r) ==
    HexSha256(secret \o r.host \o r.remoteAddr \o UserAgent(r))

\* h.state(r): the default state function, or the fixed function of the tests
StateOf(hh, r) ==
    IF hh.state = "default" THEN defaultStateFn(hh.cfg.ClientSecret, r)
    ELSE <<"state">>

Fingerprint(r) == <<r.host, ResolvedRemote(r), UserAgent(r)>>

----------------------------------------------------------------------------
(* redirectURL *)

\* A slip of redirectURL: only the first X-Forwarded-Proto value is read.
redirectURL_FirstProto(r, endpoint) ==
    IF r.url.abs
    THEN [scheme |-> r.url.scheme, host |-> r.url.host, path |-> endpoint]
    ELSE LET tlsScheme == IF r.tls THEN schemeHTTPS ELSE schemeHTTP
             scheme == IF Len(r.xfp) > 0 /\ r.xfp[1] = schemeHTTPS
                       THEN schemeHTTPS ELSE tlsScheme
         IN [scheme |-> scheme, host |-> r.host, path |-> endpoint]

\* The callback URL handed to the provider, as scheme, host and path.
redirectURL(r, endpoint) ==
    IF r.url.abs
    THEN [scheme |-> r.url.scheme, host |-> r.url.host, path |-> endpoint]
    ELSE LET tlsScheme == IF r.tls THEN schemeHTTPS ELSE schemeHTTP
             scheme == IF \E i \in 1..Len(r.xfp) : r.xfp[i] = schemeHTTPS
                       THEN schemeHTTPS ELSE tlsScheme
         IN [scheme |-> scheme, host |-> r.host, path |-> endpoint]

----------------------------------------------------------------------------
(* Scope negotiation *)

\* p.Claims(&s) for s with the one field scopes_supported: the decoded
\* list, empty when the metadata does not carry the field
SupportedScopes(p) == IF p.hasField THEN p.scopes ELSE <<>>

\* A slip of OfflineAsScope: an empty list is read as "not supported".
OfflineAsScope_EmptyIsFalse(p) ==
    IF ~p.claimsOK THEN TRUE
    ELSE \E i \in 1..Len(SupportedScopes(p)) :
            SupportedScopes(p)[i] = ScopeOfflineAccess

\* OfflineAsScope(p) for a provider whose metadata is p
OfflineAsScope(p) ==
    IF ~p.claimsOK THEN TRUE
    ELSE IF Len(SupportedScopes(p)) = 0 THEN TRUE
    ELSE \E i \in 1..Len(SupportedScopes(p)) :
            SupportedScopes(p)[i] = ScopeOfflineAccess

\* A slip of Get: the extra scopes are appended before offline_access.
Get_ExtrasFirst(r) ==
    LET scopes == DefaultScopes \o r.ExtraScopes
    IN IF r.OfflineAsScope THEN Append(scopes, ScopeOfflineAccess) ELSE scopes

\* ScopeRequests.Get
Get(r) ==
    LET scopes == IF r.OfflineAsScope
                  THEN Append(DefaultScopes, ScopeOfflineAccess)
                  ELSE DefaultScopes
    IN scopes \o r.ExtraScopes

----------------------------------------------------------------------------
(* Handlers *)

SeqContains(s, x) == \E i \in 1..Len(s) : s[i] = x

\* A slip of NewHandlers: the offline access type is kept although the
\* scopes already ask for offline_access.
NewHandlers_KeepAccessType(c, e) ==
    [cfg      |-> c,
     e        |-> e,
     oo       |-> <<AccessTypeOffline>>,
     state    |-> "default",
     endpoint |-> DefaultKubeCfgEndpoint]

\* NewHandlers before its options are applied
NewHandlers(c, e) ==
    [cfg      |-> c,
     e        |-> e,
     oo       |-> IF SeqContains(c.Scopes, ScopeOfflineAccess)
                  THEN <<>> ELSE <<AccessTypeOffline>>,
     state    |-> "default",
     endpoint |-> DefaultKubeCfgEndpoint]

\* StateFunction(fn) applied to a handler set
StateFunction(hh, fn) == [hh EXCEPT !.state = fn]

\* AuthCodeOptions(oo) applied to a handler set
AuthCodeOptions(hh, oo) == [hh EXCEPT !.oo = oo]

\* An option is [name, fn, oo]; fn or oo is its argument.  The loop at the
\* end of NewHandlers applies the options in the order given.
RECURSIVE ApplyOptions(_, _)
ApplyOptions(hh, opts) ==
    IF Len(opts) = 0 THEN hh
    ELSE LET o == Head(opts)
             next == IF o.name = "StateFunction" THEN StateFunction(hh, o.fn)
                     ELSE AuthCodeOptions(hh, o.oo)
         IN ApplyOptions(next, Tail(opts))

\* A slip of the handlers: the request's config keeps the RedirectURL of
\* the configuration NewHandlers was given.
RequestConfig_ConfiguredRedirect(hh, r) ==
    [ClientID     |-> hh.cfg.ClientID,
     ClientSecret |-> hh.cfg.ClientSecret,
     Endpoint     |-> hh.cfg.Endpoint,
     Scopes       |-> hh.cfg.Scopes,
     RedirectURL  |-> hh.cfg.RedirectURL]

\* The oauth2.Config each handler builds for its request
RequestConfig(hh, r) ==
    [ClientID     |-> hh.cfg.ClientID,
     ClientSecret |-> hh.cfg.ClientSecret,
     Endpoint     |-> hh.cfg.Endpoint,
     Scopes       |-> hh.cfg.Scopes,
     RedirectURL  |-> redirectURL(r, hh.endpoint)]

\* strings.Join(scopes, " ")
RECURSIVE JoinScopes(_)
JoinScopes(scopes) ==
    IF Len(scopes) = 0 THEN <<>>
    ELSE IF Len(scopes) = 1 THEN <<scopes[1]>>
    ELSE <<scopes[1], " ">> \o JoinScopes(Tail(scopes))

\* oauth2.Config.AuthCodeURL: the authorization endpoint with its query.
\* "present" lists the parameters the URL carries; scope and state are
\* left out when empty.
AuthCodeURL(c, state, opts) ==
    [base          |-> c.Endpoint.AuthURL,
     present       |-> {"response_type", "client_id", "redirect_uri"}
                       \cup (IF Len(c.Scopes) > 0 THEN {"scope"} ELSE {})
                       \cup (IF Len(state) > 0 THEN {"state"} ELSE {})
                       \cup {opts[i].key : i \in 1..Len(opts)},
     response_type |-> "code",
     client_id     |-> c.ClientID,
     redirect_uri  |-> c.RedirectURL,
     scope         |-> JoinScopes(c.Scopes),
     state         |-> state,
     access_type   |-> IF \E i \in 1..Len(opts) : opts[i].key = "access_type"
                       THEN "offline" ELSE ""]

NoLocation == [base |-> "", present |-> {}]
NoBody == <<>>

\* A slip of Login: the redirect is built without the state value.
LoginRun_NoState(hh, r) ==
    [status       |-> StatusSeeOther,
     headerWrites |-> <<StatusSeeOther>>,
     location     |-> AuthCodeURL(RequestConfig(hh, r), <<>>, hh.oo),
     ctype        |-> "",
     body         |-> NoBody]

\* Handlers.Login as a function of the handler set and the request
LoginRun(hh, r) ==
    [status       |-> StatusSeeOther,
     headerWrites |-> <<StatusSeeOther>>,
     location     |-> AuthCodeURL(RequestConfig(hh, r), StateOf(hh, r), hh.oo),
     ctype        |-> "",
     body         |-> NoBody]

----------------------------------------------------------------------------
(* The claims extractor *)

ParamKeys == {"email", "clientID", "clientSecret", "idToken", "refreshToken", "issuer"}

NilParams == [nil |-> TRUE]
NoErr == <<>>

\* errors.Wrap(err, msg).Error()
Wrap(err, msg) == msg \o <<": ">> \o err

\* idt.Claims(params): the claims of the identity token decoded over params,
\* each claim written to the field whose json tag it carries
DecodeClaims(params, claims) ==
    [k \in ParamKeys |-> IF k \in DOMAIN claims THEN claims[k] ELSE params[k]]

\* The context Process is called with: the request's context, which is
\* cancelled while the exchange is in flight, while the verification is in
\* flight, or not at all.
Context(env) == [cancel |-> env.cancel]

\* A slip of the exchange: it runs under a context of its own, which
\* nothing cancels.
ClientContext_Background(ctx) == [cancel |-> "never"]

\* oidc.ClientContext(ctx, o.h): ctx with the HTTP client attached, cancelled
\* when ctx is
ClientContext(ctx) == ctx

ErrCanceled == <<"context canceled">>

\* cfg.Exchange(octx, code): the provider's answer, unless octx is cancelled
\* while the request to the token endpoint is in flight
Exchange(octx, env) ==
    IF octx.cancel = "exchange" THEN [ok |-> FALSE, err |-> ErrCanceled]
    ELSE [ok |-> env.exchangeOK, err |-> env.exchangeErr]

\* o.v.Verify(ctx, id): the verifier's answer, unless ctx is cancelled by the
\* time the verification is in flight
Verify(ctx, env) ==
    IF ctx.cancel \in {"exchange", "verify"} THEN [ok |-> FALSE, err |-> ErrCanceled]
    ELSE [ok |-> env.verifyOK, err |-> env.verifyErr]

\* A slip of the last step of Process: the parameters are returned along
\* with the email-domain error.
CheckEmailDomain_KeepParams(o, decoded) ==
    [params |-> decoded,
     steps |-> <<"exchange", "id_token", "verify", "claims", "domain">>,
     err |-> IF /\ o.emailDomain # <<>>
                /\ ~HasSuffix(decoded["email"], <<"@">> \o o.emailDomain)
             THEN <<"Invalid email domain, expecting ">> \o o.emailDomain
             ELSE NoErr]

\* A slip of the policy: the username is matched against the domain
\* without the "@" before it.
CheckEmailDomain_NoAt(o, decoded) ==
    IF /\ o.emailDomain # <<>>
       /\ ~HasSuffix(decoded["email"], o.emailDomain)
    THEN [params |-> NilParams,
          steps |-> <<"exchange", "id_token", "verify", "claims", "domain">>,
          err |-> <<"Invalid email domain, expecting ">> \o o.emailDomain]
    ELSE [params |-> decoded,
          steps |-> <<"exchange", "id_token", "verify", "claims", "domain">>,
          err |-> NoErr]

\* The last step of Process: the email-domain policy on the decoded claims
CheckEmailDomain(o, decoded) ==
    IF /\ o.emailDomain # <<>>
       /\ ~HasSuffix(decoded["email"], <<"@">> \o o.emailDomain)
    THEN [params |-> NilParams,
          steps |-> <<"exchange", "id_token", "verify", "claims", "domain">>,
          err |-> <<"Invalid email domain, expecting ">> \o o.emailDomain]
    ELSE [params |-> decoded,
          steps |-> <<"exchange", "id_token", "verify", "claims", "domain">>,
          err |-> NoErr]

\* A slip of Process: the result of the type assertion on the id_token
\* field is not looked at, and the verifier is given whatever it produced.
Process_IgnoreMissingID(o, cfg, code, env) ==
    IF ~Exchange(ClientContext(Context(env)), env).ok
    THEN [params |-> NilParams, steps |-> <<"exchange">>,
          err |-> Wrap(Exchange(ClientContext(Context(env)), env).err,
                       <<"cannot exchange code for token">>)]
    ELSE IF ~Verify(Context(env), env).ok
    THEN [params |-> NilParams, steps |-> <<"exchange", "id_token", "verify">>,
          err |-> Wrap(Verify(Context(env), env).err, <<"cannot verify ID token">>)]
    ELSE LET params == [k \in ParamKeys |->
                          CASE k = "clientID"     -> cfg.ClientID
                            [] k = "clientSecret" -> cfg.ClientSecret
                            [] k = "idToken"      -> env.idToken
                            [] k = "refreshToken" -> env.refreshToken
                            [] k = "issuer"       -> env.issuer
                            [] OTHER              -> <<>>]
         IN IF ~env.claimsOK
            THEN [params |-> NilParams,
                  steps |-> <<"exchange", "id_token", "verify", "claims">>,
                  err |-> Wrap(env.claimsErr, <<"cannot extract claims from ID token">>)]
            ELSE CheckEmailDomain(o, DecodeClaims(params, env.claims))

\* A slip of Process: the verifier's error is dropped and the claims of the
\* unverified token are decoded.
Process_IgnoreVerifyError(o, cfg, code, env) ==
    IF ~Exchange(ClientContext(Context(env)), env).ok
    THEN [params |-> NilParams, steps |-> <<"exchange">>,
          err |-> Wrap(Exchange(ClientContext(Context(env)), env).err,
                       <<"cannot exchange code for token">>)]
    ELSE IF ~env.hasID
    THEN [params |-> NilParams, steps |-> <<"exchange", "id_token">>,
          err |-> ErrMissingIDToken]
    ELSE LET params == [k \in ParamKeys |->
                          CASE k = "clientID"     -> cfg.ClientID
                            [] k = "clientSecret" -> cfg.ClientSecret
                            [] k = "idToken"      -> env.idToken
                            [] k = "refreshToken" -> env.refreshToken
                            [] k = "issuer"       -> env.issuer
                            [] OTHER              -> <<>>]
         IN IF ~env.claimsOK
            THEN [params |-> NilParams,
                  steps |-> <<"exchange", "id_token", "verify", "claims">>,
                  err |-> Wrap(env.claimsErr, <<"cannot extract claims from ID token">>)]
            ELSE CheckEmailDomain(o, DecodeClaims(params, env.claims))

\* oidcExtractor.Process against a provider answering as env says.
\* steps lists the operations that ran, in order.
Process(o, cfg, code, env) ==
    IF ~Exchange(ClientContext(Context(env)), env).ok
    THEN [params |-> NilParams, steps |-> <<"exchange">>,
          err |-> Wrap(Exchange(ClientContext(Context(env)), env).err,
                       <<"cannot exchange code for token">>)]
    ELSE IF ~env.hasID
    THEN [params |-> NilParams, steps |-> <<"exchange", "id_token">>,
          err |-> ErrMissingIDToken]
    ELSE IF ~Verify(Context(env), env).ok
    THEN [params |-> NilParams, steps |-> <<"exchange", "id_token", "verify">>,
          err |-> Wrap(Verify(Context(env), env).err, <<"cannot verify ID token">>)]
    ELSE LET params == [k \in ParamKeys |->
                          CASE k = "clientID"     -> cfg.ClientID
                            [] k = "clientSecret" -> cfg.ClientSecret
                            [] k = "idToken"      -> env.idToken
                            [] k = "refreshToken" -> env.refreshToken
                            [] k = "issuer"       -> env.issuer
                            [] OTHER              -> <<>>]
         IN IF ~env.claimsOK
            THEN [params |-> NilParams,
                  steps |-> <<"exchange", "id_token", "verify", "claims">>,
                  err |-> Wrap(env.claimsErr, <<"cannot extract claims from ID token">>)]
            ELSE CheckEmailDomain(o, DecodeClaims(params, env.claims))

\* json.Marshal of the parameters: the fields in declaration order
MarshalJSON(p) ==
    <<"{", "email:">> \o p["email"]
      \o <<",", "clientID:">> \o p["clientID"]
      \o <<",", "clientSecret:">> \o p["clientSecret"]
      \o <<",", "idToken:">> \o p["idToken"]
      \o <<",", "refreshToken:">> \o p["refreshToken"]
      \o <<",", "issuer:">> \o p["issuer"]
      \o <<"}">>

----------------------------------------------------------------------------
(* Handlers.KubeCfg *)

\* fmt.Fprintln(w, msg): the message and a line end
ErrorBody(msg) == msg \o <<"\n">>

\* http.Error(w, msg, status)
HttpError(msg, status) ==
    [status |-> status, headerWrites |-> <<status>>, location |-> NoLocation,
     ctype |-> "text/plain; charset=utf-8", body |-> ErrorBody(msg)]

\* A slip of the message: the error_uri is appended to the bare error, so
\* a description given with it is lost.
ProviderErrorMsg_UriDropsDescription(r) ==
    LET e == FormValue(r, "error")
        desc == FormValue(r, "error_description")
        uri == FormValue(r, "error_uri")
        m1 == IF desc # <<>> THEN e \o <<": ">> \o desc ELSE e
    IN IF uri # <<>> THEN e \o <<" (see ">> \o uri \o <<")">> ELSE m1

\* The message of the provider-denied response
ProviderErrorMsg(r) ==
    LET e == FormValue(r, "error")
        desc == FormValue(r, "error_description")
        uri == FormValue(r, "error_uri")
        m1 == IF desc # <<>> THEN e \o <<": ">> \o desc ELSE e
    IN IF uri # <<>> THEN m1 \o <<" (see ">> \o uri \o <<")">> ELSE m1

\* A slip of the failure response: a failed Process is reported as 400.
ExchangeResponse_BadRequest(p, env) ==
    IF p.err # NoErr
    THEN HttpError(Wrap(p.err, <<"cannot process OAuth2 code">>), StatusBadRequest)
    ELSE IF env.writeOK
    THEN [status |-> StatusOK, headerWrites |-> <<StatusOK>>,
          location |-> NoLocation,
          ctype |-> "application/json; charset=utf-8",
          body |-> MarshalJSON(p.params)]
    ELSE [status |-> StatusOK,
          headerWrites |-> <<StatusOK, StatusInternalServerError>>,
          location |-> NoLocation,
          ctype |-> "application/json; charset=utf-8",
          body |-> SubSeq(MarshalJSON(p.params), 1, env.wrote)]

\* The response of a callback whose Process call returned p
ExchangeResponse(p, env) ==
    IF p.err # NoErr
    THEN HttpError(Wrap(p.err, <<"cannot process OAuth2 code">>), StatusForbidden)
    ELSE IF env.writeOK
    THEN [status |-> StatusOK, headerWrites |-> <<StatusOK>>,
          location |-> NoLocation,
          ctype |-> "application/json; charset=utf-8",
          body |-> MarshalJSON(p.params)]
    ELSE \* w.Write failed after the 200 header and env.wrote bytes of the
         \* body: http.Error writes a second header, which the server ignores
         [status |-> StatusOK,
          headerWrites |-> <<StatusOK, StatusInternalServerError>>,
          location |-> NoLocation,
          ctype |-> "application/json; charset=utf-8",
          body |-> SubSeq(MarshalJSON(p.params), 1, env.wrote)]

\* A slip of the exchange leg: a failed Process is tried once more.
ExchangeLeg_Retry(hh, r, env) ==
    LET c == RequestConfig(hh, r)
        code == FormValue(r, "code")
        p == Process(hh.e, c, code, env)
        call == [cfg |-> c, code |-> code, result |-> p]
    IN [rsp |-> ExchangeResponse(p, env),
        calls |-> IF p.err # NoErr THEN <<call, call>> ELSE <<call>>]

\* The exchange leg of Handlers.KubeCfg: the request's own oauth2 config,
\* one Process call, and the response made from its result.
ExchangeLeg(hh, r, env) ==
    LET c == RequestConfig(hh, r)
        code == FormValue(r, "code")
        p == Process(hh.e, c, code, env)
        call == [cfg |-> c, code |-> code, result |-> p]
    IN [rsp |-> ExchangeResponse(p, env), calls |-> <<call>>]

\* A slip of the state check: a missing state parameter is let through.
KubeCfgRun_SkipEmptyState(hh, r, env) ==
    IF FormValue(r, "state") # <<>> /\ FormValue(r, "state") # StateOf(hh, r)
    THEN [rsp |-> HttpError(ErrInvalidState, StatusForbidden), calls |-> <<>>]
    ELSE IF FormValue(r, "error") # <<>>
    THEN [rsp |-> HttpError(ProviderErrorMsg(r), StatusForbidden), calls |-> <<>>]
    ELSE IF FormValue(r, "code") = <<>>
    THEN [rsp |-> HttpError(ErrMissingCode, StatusBadRequest), calls |-> <<>>]
    ELSE ExchangeLeg(hh, r, env)

\* A slip of the order: the provider's error is looked at before the state.
KubeCfgRun_ErrorFirst(hh, r, env) ==
    IF FormValue(r, "error") # <<>>
    THEN [rsp |-> HttpError(ProviderErrorMsg(r), StatusForbidden), calls |-> <<>>]
    ELSE IF FormValue(r, "state") # StateOf(hh, r)
    THEN [rsp |-> HttpError(ErrInvalidState, StatusForbidden), calls |-> <<>>]
    ELSE IF FormValue(r, "code") = <<>>
    THEN [rsp |-> HttpError(ErrMissingCode, StatusBadRequest), calls |-> <<>>]
    ELSE ExchangeLeg(hh, r, env)

\* A slip of the code check: a callback without a code reaches the exchange.
KubeCfgRun_NoCodeCheck(hh, r, env) ==
    IF FormValue(r, "state") # StateOf(hh, r)
    THEN [rsp |-> HttpError(ErrInvalidState, StatusForbidden), calls |-> <<>>]
    ELSE IF FormValue(r, "error") # <<>>
    THEN [rsp |-> HttpError(ProviderErrorMsg(r), StatusForbidden), calls |-> <<>>]
    ELSE ExchangeLeg(hh, r, env)

\* Handlers.KubeCfg as a function of the handler set, the request and the
\* provider's behaviour: the response and the extractor invocations made.
KubeCfgRun(hh, r, env) ==
    IF FormValue(r, "state") # StateOf(hh, r)
    THEN [rsp |-> HttpError(ErrInvalidState, StatusForbidden), calls |-> <<>>]
    ELSE IF FormValue(r, "error") # <<>>
    THEN [rsp |-> HttpError(ProviderErrorMsg(r), StatusForbidden), calls |-> <<>>]
    ELSE IF FormValue(r, "code") = <<>>
    THEN [rsp |-> HttpError(ErrMissingCode, StatusBadRequest), calls |-> <<>>]
    ELSE ExchangeLeg(hh, r, env)

----------------------------------------------------------------------------
(* Template *)

\* No configuration was built
NoConfig == [nil |-> TRUE]

templateUser == <<"kuberos">>
templateAuthProvider == <<"oidc">>
templateOIDCClientID == <<"client-id">>
templateOIDCClientSecret == <<"client-secret">>
templateOIDCIDToken == <<"id-token">>
templateOIDCIssuer == <<"idp-issuer-url">>
templateOIDCRefreshToken == <<"refresh-token">>

\* A slip of the struct tags: the issuer is decoded from "issuerURL".
SchemaTag_IssuerURL(k) == IF k = "issuer" THEN "issuerURL" ELSE k

\* The schema tag of each field of OIDCAuthenticationParams; a field is
\* named here by its json tag
SchemaTag(k) ==
    CASE k = "email"        -> "email"
      [] k = "clientID"     -> "clientID"
      [] k = "clientSecret" -> "clientSecret"
      [] k = "idToken"      -> "idToken"
      [] k = "refreshToken" -> "refreshToken"
      [] k = "issuer"       -> "issuer"

\* decoder.Decode(p, r.Form) with the default schema decoder: each field
\* takes the value under its tag, an absent key leaves the field empty, and
\* a key that is no field's tag is an error
Decode(form) ==
    [ok |-> \A key \in DOMAIN form : \E k \in ParamKeys : SchemaTag(k) = key,
     err |-> <<"schema: invalid path">>,
     p |-> [k \in ParamKeys |->
              IF SchemaTag(k) \in DOMAIN form THEN form[SchemaTag(k)] ELSE <<>>]]

\* The AuthInfo Template makes of the decoded parameters
AuthInfoOf(p) ==
    [Username |-> p["email"],
     AuthProvider |->
        [Name |-> templateAuthProvider,
         Config |-> [key \in {templateOIDCClientID, templateOIDCClientSecret,
                              templateOIDCIDToken, templateOIDCRefreshToken,
                              templateOIDCIssuer} |->
                       CASE key = templateOIDCClientID     -> p["clientID"]
                         [] key = templateOIDCClientSecret -> p["clientSecret"]
                         [] key = templateOIDCIDToken      -> p["idToken"]
                         [] key = templateOIDCRefreshToken -> p["refreshToken"]
                         [] key = templateOIDCIssuer       -> p["issuer"]]]]

\* A slip of the loop: every context points at the cluster visited first.
BuildConfig_OneCluster(cfg, p) ==
    [AuthInfos |-> [u \in {templateUser} |-> AuthInfoOf(p)],
     Clusters |-> [name \in DOMAIN cfg.Clusters |-> cfg.Clusters[name]],
     Contexts |-> [name \in DOMAIN cfg.Clusters |->
                     [Cluster |-> CHOOSE n \in DOMAIN cfg.Clusters : TRUE,
                      AuthInfo |-> templateUser]],
     CurrentContext |-> <<>>]

\* The configuration Template builds in memory from the template cfg and
\* the decoded parameters p
BuildConfig(cfg, p) ==
    [AuthInfos |-> [u \in {templateUser} |-> AuthInfoOf(p)],
     Clusters |-> [name \in DOMAIN cfg.Clusters |-> cfg.Clusters[name]],
     Contexts |-> [name \in DOMAIN cfg.Clusters |->
                     [Cluster |-> name, AuthInfo |-> templateUser]],
     CurrentContext |-> <<>>]

\* The names clientcmd.Write lists, in the order it lists them
NameOrder == << <<"a">>, <<"b">> >>

YAMLCluster(name, cl) ==
    <<"- name:">> \o name \o <<"server:">> \o cl.Server
      \o (IF cl.CertificateAuthority # <<>>
          THEN <<"certificate-authority:">> \o cl.CertificateAuthority ELSE <<>>)
      \o (IF cl.CertificateAuthorityData # <<>>
          THEN <<"certificate-authority-data:">> \o cl.CertificateAuthorityData
          ELSE <<>>)

YAMLContext(name, ctx) ==
    <<"- name:">> \o name \o <<"cluster:">> \o ctx.Cluster \o <<"user:">> \o ctx.AuthInfo

YAMLUser(name, a) ==
    <<"- name:">> \o name
      \o <<"auth-provider:">> \o a.AuthProvider.Name
      \o <<"client-id:">> \o a.AuthProvider.Config[templateOIDCClientID]
      \o <<"client-secret:">> \o a.AuthProvider.Config[templateOIDCClientSecret]
      \o <<"id-token:">> \o a.AuthProvider.Config[templateOIDCIDToken]
      \o <<"idp-issuer-url:">> \o a.AuthProvider.Config[templateOIDCIssuer]
      \o <<"refresh-token:">> \o a.AuthProvider.Config[templateOIDCRefreshToken]
      \o (IF a.Username # <<>> THEN <<"username:">> \o a.Username ELSE <<>>)

RECURSIVE YAMLClusters(_, _)
YAMLClusters(c, names) ==
    IF Len(names) = 0 THEN <<>>
    ELSE (IF Head(names) \in DOMAIN c.Clusters
          THEN YAMLCluster(Head(names), c.Clusters[Head(names)]) ELSE <<>>)
         \o YAMLClusters(c, Tail(names))

RECURSIVE YAMLContexts(_, _)
YAMLContexts(c, names) ==
    IF Len(names) = 0 THEN <<>>
    ELSE (IF Head(names) \in DOMAIN c.Contexts
          THEN YAMLContext(Head(names), c.Contexts[Head(names)]) ELSE <<>>)
         \o YAMLContexts(c, Tail(names))

RECURSIVE YAMLUsers(_, _)
YAMLUsers(c, S) ==
    IF S = {} THEN <<>>
    ELSE LET u == CHOOSE x \in S : TRUE
         IN YAMLUser(u, c.AuthInfos[u]) \o YAMLUsers(c, S \ {u})

\* clientcmd.Write(c): the configuration as a YAML document
WriteYAML(c) ==
    <<"apiVersion: v1", "kind: Config">>
      \o <<"clusters:">> \o YAMLClusters(c, NameOrder)
      \o <<"contexts:">> \o YAMLContexts(c, NameOrder)
      \o <<"current-context:">> \o c.CurrentContext
      \o <<"users:">> \o YAMLUsers(c, DOMAIN c.AuthInfos)

\* http.Error on the Template route: no attachment header is set before it
TemplateError(msg, status) ==
    [status |-> status, headerWrites |-> <<status>>,
     ctype |-> "text/plain; charset=utf-8", disposition |-> "",
     body |-> ErrorBody(msg)]

\* A slip of the handler: a failed serialization is answered as a bad request.
TemplateRun_MarshalIsBadRequest(cfg, r, env) ==
    LET d == Decode(r.form)
        c == BuildConfig(cfg, d.p)
    IN IF ~d.ok
       THEN [rsp |-> TemplateError(Wrap(d.err, <<"cannot parse URL parameter">>),
                                   StatusBadRequest),
             config |-> NoConfig]
       ELSE IF ~env.marshalOK
       THEN [rsp |-> TemplateError(Wrap(env.marshalErr,
                                        <<"cannot marshal template to YAML">>),
                                   StatusBadRequest),
             config |-> c]
       ELSE [rsp |-> [status |-> StatusOK,
                      headerWrites |-> IF env.writeOK THEN <<StatusOK>>
                                       ELSE <<StatusOK, StatusInternalServerError>>,
                      ctype |-> "text/x-yaml; charset=utf-8",
                      disposition |-> "attachment",
                      body |-> IF env.writeOK THEN WriteYAML(c)
                               ELSE SubSeq(WriteYAML(c), 1, env.wrote)],
             config |-> c]

\* The handler Template(cfg) returns, as a function of the template, the
\* request and the behaviour of the serializer and the connection: the
\* response and the configuration built in memory
TemplateRun(cfg, r, env) ==
    LET d == Decode(r.form)
        c == BuildConfig(cfg, d.p)
    IN IF ~d.ok
       THEN [rsp |-> TemplateError(Wrap(d.err, <<"cannot parse URL parameter">>),
                                   StatusBadRequest),
             config |-> NoConfig]
       ELSE IF ~env.marshalOK
       THEN [rsp |-> TemplateError(Wrap(env.marshalErr,
                                        <<"cannot marshal template to YAML">>),
                                   StatusInternalServerError),
             config |-> c]
       ELSE [rsp |-> [status |-> StatusOK,
                      headerWrites |-> IF env.writeOK THEN <<StatusOK>>
                                       ELSE <<StatusOK, StatusInternalServerError>>,
                      ctype |-> "text/x-yaml; charset=utf-8",
                      disposition |-> "attachment",
                      body |-> IF env.writeOK THEN WriteYAML(c)
                               ELSE SubSeq(WriteYAML(c), 1, env.wrote)],
             config |-> c]

----------------------------------------------------------------------------
(* The deployment: server instances sharing one configuration *)

Instances == {1, 2}
Secrets == {<<"s">>, <<"t">>}
ScopeLists == {DefaultScopes, DefaultScopes \o <<ScopeOfflineAccess>>}
EmailDomain == <<"b">>

\* The -email-domain flag: not given, or given
EmailDomains == {<<>>, EmailDomain}

BaseConfig(secret, scopes) ==
    [ClientID     |-> <<"client">>,
     ClientSecret |-> secret,
     Endpoint     |-> [AuthURL |-> "https://auth", TokenURL |-> "https://token"],
     Scopes       |-> scopes,
     RedirectURL  |-> [scheme |-> schemeHTTPS, host |-> <<"configured">>,
                       path |-> <<"/redirect">>]]

NewOIDC(domain) == [emailDomain |-> domain]

----------------------------------------------------------------------------
(* Inputs of the handshake *)

RelURL == [abs |-> FALSE, scheme |-> "", host |-> <<>>]

Transports ==
    { [url |-> RelURL, tls |-> FALSE, xfp |-> <<>>],
      [url |-> RelURL, tls |-> TRUE, xfp |-> <<>>],
      [url |-> RelURL, tls |-> FALSE, xfp |-> <<schemeHTTP, schemeHTTPS>>],
      [url |-> [abs |-> TRUE, scheme |-> schemeHTTP, host |-> <<"b">>],
       tls |-> FALSE, xfp |-> <<>>] }

PlainTransport == [url |-> RelURL, tls |-> FALSE, xfp |-> <<>>]

Peers ==
    [host : {<<"a">>, <<"a", "b">>},
     ua : {<<>>, <<"b">>},
     remoteAddr : {<<"a">>, <<"b">>},
     xff : {<<>>, << <<"b">>, <<"a">> >>}]

MkRequest(peer, t, form) ==
    [host |-> peer.host, ua |-> peer.ua, remoteAddr |-> peer.remoteAddr,
     xff |-> peer.xff, url |-> t.url, tls |-> t.tls, xfp |-> t.xfp, form |-> form]

LoginRequests == {MkRequest(p, t, EmptyForm) : p \in Peers, t \in Transports}

\* A peer with another host: the source of a token made for another fingerprint
OtherPeer(p) == [p EXCEPT !.host = IF p.host = <<"a">> THEN <<"a", "b">> ELSE <<"a">>]

\* The state values a callback may carry: none, a string that is no token,
\* the tokens a Login from the same peer was given by an instance holding
\* either secret, and a token given to another peer.
StateParams(p) ==
    {<<>>, <<"a">>}
      \cup {defaultStateFn(s, MkRequest(p, PlainTransport, EmptyForm)) : s \in Secrets}
      \cup {defaultStateFn(<<"s">>, MkRequest(OtherPeer(p), PlainTransport, EmptyForm))}

ErrorForms ==
    {[error |-> <<>>, error_description |-> <<>>, error_uri |-> <<>>]}
      \cup [error : {<<"a">>}, error_description : {<<>>, <<"b">>},
            error_uri : {<<>>, <<"a">>}]

CallbackForms(p) ==
    {[state |-> st, error |-> ef.error, error_description |-> ef.error_description,
      error_uri |-> ef.error_uri, code |-> cd] :
        st \in StateParams(p), ef \in ErrorForms, cd \in {<<>>, <<"a">>}}

CallbackTransports == {PlainTransport, [url |-> RelURL, tls |-> TRUE, xfp |-> <<>>]}

\* The provider's behaviour towards one Process call
IDToken == <<"IDTOKEN">>
RefreshToken == <<"REFRESHTOKEN">>

GoodEnv ==
    [exchangeOK |-> TRUE, exchangeErr |-> <<"oauth2: cannot fetch token">>,
     hasID |-> TRUE, idToken |-> IDToken, refreshToken |-> RefreshToken,
     verifyOK |-> TRUE, verifyErr |-> <<"oidc: verification failed">>,
     issuer |-> <<"https://issuer">>,
     claimsOK |-> TRUE, claimsErr |-> <<"json: cannot unmarshal">>,
     claims |-> [k \in {"email"} |-> <<"a", "@", "b">>],
     writeOK |-> TRUE, wrote |-> 0, cancel |-> "never"]

Envs ==
    { GoodEnv,
      [GoodEnv EXCEPT !.refreshToken = <<>>],
      [GoodEnv EXCEPT !.exchangeOK = FALSE],
      [GoodEnv EXCEPT !.hasID = FALSE],
      [GoodEnv EXCEPT !.verifyOK = FALSE],
      [GoodEnv EXCEPT !.claimsOK = FALSE],
      [GoodEnv EXCEPT !.claims = [k \in {"email"} |-> <<"a", "@", "a">>]],
      [GoodEnv EXCEPT !.claims = [k \in {"email"} |-> <<"a", "@", "a", "b">>]],
      [GoodEnv EXCEPT !.claims = [k \in {"email"} |-> <<>>]],
      [GoodEnv EXCEPT !.cancel = "exchange"],
      [GoodEnv EXCEPT !.cancel = "verify"],
      [GoodEnv EXCEPT !.writeOK = FALSE],
      [GoodEnv EXCEPT !.writeOK = FALSE, !.wrote = 4] }

\* The request reaches the extractor: only then does the provider matter
ReachesProcess(hh, r) ==
    /\ FormValue(r, "state") = StateOf(hh, r)
    /\ FormValue(r, "error") = <<>>
    /\ FormValue(r, "code") # <<>>

----------------------------------------------------------------------------
(* State *)

NoRequest == [kind |-> "none", inst |-> 0]
NoResponse == [status |-> 0, headerWrites |-> <<>>, location |-> NoLocation,
               ctype |-> "", body |-> NoBody]
NoFlow == [started |-> FALSE]
NoFnReq == [applied |-> FALSE, r |-> [host |-> <<>>]]
NoScopeStudy == [pc |-> "off"]
NoProcessStudy == [pc |-> "off"]

NoTemplate == [loaded |-> FALSE]
NoTemplateRequest == [kind |-> "none"]
NoTemplateResponse ==
    [rsp |-> [status |-> 0, headerWrites |-> <<>>, ctype |-> "",
              disposition |-> "", body |-> NoBody],
     config |-> NoConfig]

\* No template is loaded and no Template request is served
TemplateIdle ==
    /\ tmpl = NoTemplate
    /\ treq = NoTemplateRequest
    /\ trsp = NoTemplateResponse

\* The studies of the pure functions are idle while the handlers are served
MainIdle ==
    /\ rd = [pc |-> "off"]
    /\ srv = [pc |-> "off"]
    /\ mem = [pc |-> "off"]
    /\ conc = [pc |-> "off"]

StudiesIdle ==
    /\ TemplateIdle
    /\ MainIdle
    /\ snIn = NoScopeStudy
    /\ snOut = NoScopeStudy
    /\ pIn = NoProcessStudy
    /\ pOut = NoProcessStudy

Init ==
    /\ \E s2 \in Secrets, scopes \in ScopeLists, d \in EmailDomains :
          h = [i \in Instances |->
                 NewHandlers(BaseConfig(IF i = 1 THEN <<"s">> ELSE s2, scopes),
                             NewOIDC(d))]
    /\ ho = <<>>
    /\ StudiesIdle
    /\ req = NoRequest
    /\ rsp = NoResponse
    /\ calls = <<>>
    /\ flow = NoFlow
    /\ flowExchanges = 0
    /\ flowCompleted = 0
    /\ fnReq = NoFnReq
    /\ fnSecret = <<>>
    /\ fnTok = <<>>
    /\ fnTokRemote = <<>>

----------------------------------------------------------------------------
(* Actions *)

\* Instance i serves a Login request.  With track, the first Login is
\* remembered as the flow the later callbacks are measured against.
Login(i, r, track) ==
    /\ req' = [kind |-> "Login", inst |-> i, r |-> r]
    /\ rsp' = LoginRun(h[i], r)
    /\ calls' = <<>>
    /\ flow' = IF track /\ ~flow.started
               THEN [started |-> TRUE, inst |-> i, fp |-> Fingerprint(r),
                     state |-> LoginRun(h[i], r).location.state]
               ELSE flow
    /\ UNCHANGED <<h, ho, flowExchanges, flowCompleted, fnVars, snVars, pVars, tVars, mVars>>

\* Instance i serves a callback while the provider and the connection
\* behave as env; req keeps env as the history of that behaviour.
KubeCfg(i, r, env) ==
    LET out == KubeCfgRun(h[i], r, env)
        inFlow == flow.started /\ FormValue(r, "state") = flow.state
    IN /\ inFlow => flowExchanges + Len(out.calls) <= MaxReplay
       /\ req' = [kind |-> "KubeCfg", inst |-> i, r |-> r, env |-> env]
       /\ rsp' = out.rsp
       /\ calls' = out.calls
       /\ flowExchanges' = IF inFlow THEN flowExchanges + Len(out.calls)
                           ELSE flowExchanges
       /\ flowCompleted' = IF inFlow /\ out.rsp.status = StatusOK
                                     /\ out.rsp.headerWrites = <<StatusOK>>
                           THEN flowCompleted + 1 ELSE flowCompleted
       /\ UNCHANGED <<h, ho, flow, fnVars, snVars, pVars, tVars, mVars>>

\* The server has sent the response and the request's goroutine ends.
Finish ==
    /\ req.kind # "none"
    /\ req' = NoRequest
    /\ rsp' = NoResponse
    /\ calls' = <<>>
    /\ UNCHANGED <<h, ho, flow, flowExchanges, flowCompleted, fnVars, snVars, pVars, tVars, mVars>>

ServeLogin ==
    /\ req.kind = "none"
    /\ \E i \in Instances, r \in LoginRequests : Login(i, r, FALSE)

ServeKubeCfg ==
    /\ req.kind = "none"
    /\ \E i \in Instances, p \in Peers, t \in CallbackTransports :
         \E f \in CallbackForms(p) :
           LET r == MkRequest(p, t, f)
           IN \E env \in (IF ReachesProcess(h[i], r) THEN Envs ELSE {GoodEnv}) :
                 KubeCfg(i, r, env)

Next == ServeLogin \/ ServeKubeCfg \/ Finish

Spec == Init /\ [][Next]_vars

----------------------------------------------------------------------------
(* The handshake as a flow: a Login, then callbacks that answer it or not *)

FlowPeers == Peers

\* What a callback of the flow study carries as state: nothing, or the
\* state the flow's Login put in its redirect.
FlowForms ==
    {[EmptyForm EXCEPT !.state = st, !.error = e, !.code = cd] :
        st \in {<<>>} \cup (IF flow.started THEN {flow.state} ELSE {}),
        e \in {<<>>, <<"a">>}, cd \in {<<>>, <<"a">>}}

FlowEnvs ==
    { GoodEnv, [GoodEnv EXCEPT !.exchangeOK = FALSE],
      [GoodEnv EXCEPT !.claims = [k \in {"email"} |-> <<"a", "@", "a">>]] }

FlowLogin ==
    /\ req.kind = "none"
    /\ \E i \in Instances, p \in FlowPeers :
          Login(i, MkRequest(p, PlainTransport, EmptyForm), TRUE)

FlowKubeCfg ==
    /\ req.kind = "none"
    /\ \E i \in Instances, p \in FlowPeers, f \in FlowForms :
          LET r == MkRequest(p, PlainTransport, f)
          IN \E env \in (IF ReachesProcess(h[i], r) THEN FlowEnvs ELSE {GoodEnv}) :
                KubeCfg(i, r, env)

NextFlow == FlowLogin \/ FlowKubeCfg \/ Finish

SpecFlow == Init /\ [][NextFlow]_vars

----------------------------------------------------------------------------
(* Login under every way of building the handlers *)

\* The options a caller of NewHandlers may pass: the fixed state function
\* of the tests, and authorization options of the caller's own choosing.
Options ==
    { [name |-> "StateFunction", fn |-> "fixed", oo |-> <<>>],
      [name |-> "AuthCodeOptions", fn |-> "", oo |-> <<>>],
      [name |-> "AuthCodeOptions", fn |-> "", oo |-> <<AccessTypeOffline>>] }

RECURSIVE OptionsUpTo(_)
OptionsUpTo(n) ==
    IF n = 0 THEN {<<>>}
    ELSE LET S == OptionsUpTo(n - 1) IN S \cup {Append(s, o) : s \in S, o \in Options}

LoginScopeLists == ScopeLists \cup {<<ScopeOpenID, ScopeOfflineAccess>>}

InitLogin ==
    /\ ho \in OptionsUpTo(MaxOptions)
    /\ \E scopes \in LoginScopeLists :
          h = [i \in Instances |->
                 ApplyOptions(NewHandlers(BaseConfig(<<"s">>, scopes),
                                          NewOIDC(EmailDomain)), ho)]
    /\ StudiesIdle
    /\ req = NoRequest
    /\ rsp = NoResponse
    /\ calls = <<>>
    /\ flow = NoFlow
    /\ flowExchanges = 0
    /\ flowCompleted = 0
    /\ fnReq = NoFnReq
    /\ fnSecret = <<>>
    /\ fnTok = <<>>
    /\ fnTokRemote = <<>>

NextLogin == ServeLogin \/ Finish

SpecLogin == InitLogin /\ [][NextLogin]_vars

----------------------------------------------------------------------------
(* Scope negotiation on its own *)

ScopeNames == {ScopeOpenID, ScopeOfflineAccess, "groups"}

RECURSIVE ScopesUpTo(_)
ScopesUpTo(n) ==
    IF n = 0 THEN {<<>>}
    ELSE LET S == ScopesUpTo(n - 1) IN S \cup {Append(s, c) : s \in S, c \in ScopeNames}

\* Provider metadata: whether it decodes, whether it carries
\* scopes_supported, and the list it carries
Providers ==
    {[claimsOK |-> ok, hasField |-> TRUE, scopes |-> l] :
        ok \in BOOLEAN, l \in ScopesUpTo(MaxScopes)}
    \cup {[claimsOK |-> ok, hasField |-> FALSE, scopes |-> <<>>] : ok \in BOOLEAN}

InitScopes ==
    /\ h = [i \in Instances |->
              NewHandlers(BaseConfig(<<"s">>, DefaultScopes), NewOIDC(EmailDomain))]
    /\ ho = <<>>
    /\ req = NoRequest
    /\ rsp = NoResponse
    /\ calls = <<>>
    /\ flow = NoFlow
    /\ flowExchanges = 0
    /\ flowCompleted = 0
    /\ fnReq = NoFnReq
    /\ fnSecret = <<>>
    /\ fnTok = <<>>
    /\ fnTokRemote = <<>>
    /\ \E p \in Providers, x \in ScopesUpTo(MaxScopes) :
          snIn = [pc |-> "on", p |-> p, extra |-> x]
    /\ snOut = [pc |-> "start", offline |-> FALSE, scopes |-> <<>>]
    /\ pIn = NoProcessStudy
    /\ pOut = NoProcessStudy
    /\ TemplateIdle
    /\ MainIdle

\* main asks the provider whether offline access is a scope
Negotiate ==
    /\ snOut.pc = "start"
    /\ snOut' = [snOut EXCEPT !.pc = "negotiated", !.offline = OfflineAsScope(snIn.p)]
    /\ UNCHANGED <<snIn, hsVars, fnVars, pVars, tVars, mVars>>

\* main builds the scope list of the oauth2 config
GetScopes ==
    /\ snOut.pc = "negotiated"
    /\ snOut' = [snOut EXCEPT !.pc = "got",
                   !.scopes = Get([OfflineAsScope |-> snOut.offline,
                                   ExtraScopes |-> snIn.extra])]
    /\ UNCHANGED <<snIn, hsVars, fnVars, pVars, tVars, mVars>>

NextScopes == Negotiate \/ GetScopes

SpecScopes == InitScopes /\ [][NextScopes]_vars

----------------------------------------------------------------------------
(* The extractor on its own *)

\* What the token response carries under "id_token"
IDKinds == {"absent", "number", "string"}

\* token.Extra("id_token").(string): the assertion holds for a string only
IsString(kind) == kind = "string"

\* The claims an identity token may carry: the email, alone or next to a
\* claim named like another field of the parameters
TokenClaims ==
    LET emails == {<<"a", "@", "b">>, <<"a", "@", "a">>}
    IN {[k \in {"email"} |-> m] : m \in emails}
       \cup {[k \in {"email", "clientSecret"} |->
                 IF k = "email" THEN m ELSE <<"CLAIMED">>] : m \in emails}
       \cup {[k \in {"email", "idToken"} |->
                 IF k = "email" THEN m ELSE <<"CLAIMED">>] : m \in emails}

\* Every combination of the provider's answers, so that a step can fail
\* while later steps would have passed or failed
ProcessEnvs(kind) ==
    {[GoodEnv EXCEPT !.exchangeOK = x, !.hasID = IsString(kind), !.verifyOK = v,
                     !.claimsOK = c, !.claims = cl] :
        x \in BOOLEAN, v \in BOOLEAN, c \in BOOLEAN, cl \in TokenClaims}

InitProcess ==
    /\ h = [i \in Instances |->
              NewHandlers(BaseConfig(<<"s">>, DefaultScopes), NewOIDC(EmailDomain))]
    /\ ho = <<>>
    /\ req = NoRequest
    /\ rsp = NoResponse
    /\ calls = <<>>
    /\ flow = NoFlow
    /\ flowExchanges = 0
    /\ flowCompleted = 0
    /\ fnReq = NoFnReq
    /\ fnSecret = <<>>
    /\ fnTok = <<>>
    /\ fnTokRemote = <<>>
    /\ snIn = NoScopeStudy
    /\ snOut = NoScopeStudy
    /\ TemplateIdle
    /\ MainIdle
    /\ \E d \in {<<>>, EmailDomain}, kind \in IDKinds :
         \E env \in ProcessEnvs(kind) :
            pIn = [pc |-> "on", o |-> NewOIDC(d),
                   cfg |-> BaseConfig(<<"s">>, DefaultScopes),
                   code |-> <<"a">>, idKind |-> kind, env |-> env]
    /\ pOut = [pc |-> "start"]

\* The extractor processes the code
ApplyProcess ==
    /\ pOut.pc = "start"
    /\ pOut' = [pc |-> "done",
                result |-> Process(pIn.o, pIn.cfg, pIn.code, pIn.env)]
    /\ UNCHANGED <<pIn, hsVars, fnVars, snVars, tVars, mVars>>

NextProcess == ApplyProcess

SpecProcess == InitProcess /\ [][NextProcess]_vars

----------------------------------------------------------------------------
(* Template: templates, requests, and the echo of a handshake *)

ClusterNames == {<<"a">>, <<"b">>}

\* A template cluster carries inline CA data, names a CA file, or neither
ClusterVariants == {"data", "file", "bare"}

ClusterOf(name, v) ==
    [Server |-> <<"https://">> \o name,
     CertificateAuthority |-> IF v = "file" THEN <<"/etc/ca.pem">> ELSE <<>>,
     CertificateAuthorityData |-> IF v = "data" THEN <<"PAM">> ELSE <<>>]

\* The templates clientcmd.LoadFromFile may hand to Template: any of the
\* clusters, and no current context or the name of one of them
TemplateConfigs ==
    UNION {{[Clusters |-> [n \in S |-> ClusterOf(n, v[n])], CurrentContext |-> cc] :
               v \in [S -> ClusterVariants], cc \in {<<>>} \cup S} :
           S \in SUBSET ClusterNames}

\* The service account's CA file: not there, or readable with a certificate
CAFiles == {[readable |-> FALSE, data |-> <<>>], [readable |-> TRUE, data |-> <<"PEM">>]}

Usernames == {<<>>, <<"u">>, templateUser}

FullForm(u) == [k \in ParamKeys |-> IF k = "email" THEN u ELSE <<k>>]

\* The query of a Template request: all six parameters, the email alone,
\* or the six and a parameter the handler does not know
TemplateForms ==
    {FullForm(u) : u \in Usernames}
    \cup {[k \in {"email"} |-> u] : u \in Usernames}
    \cup {[k \in ParamKeys \cup {"other"} |->
              IF k = "other" THEN <<"x">> ELSE FullForm(u)[k]] : u \in Usernames}

GoodTemplateEnv ==
    [marshalOK |-> TRUE, marshalErr |-> <<"yaml: cannot marshal">>,
     writeOK |-> TRUE, wrote |-> 0]

TemplateEnvs ==
    { GoodTemplateEnv,
      [GoodTemplateEnv EXCEPT !.marshalOK = FALSE],
      [GoodTemplateEnv EXCEPT !.writeOK = FALSE, !.wrote = 2] }

\* The label json.Marshal writes before a field's value
JSONLabel(k) == k \o ":"

\* The fields a client reads from a JSON body: each name with the value
\* that follows its label, up to the next separator
ParseJSON(body) ==
    LET at(k) == CHOOSE i \in 1..Len(body) : body[i] = JSONLabel(k)
        end(i) == CHOOSE j \in (i + 1)..Len(body) :
                     /\ body[j] \in {",", "}"}
                     /\ \A m \in (i + 1)..(j - 1) : body[m] \notin {",", "}"}
    IN [k \in {k \in ParamKeys : \E i \in 1..Len(body) : body[i] = JSONLabel(k)} |->
          SubSeq(body, at(k) + 1, end(at(k)) - 1)]

\* url.QueryEscape and its inverse, for the one reserved character of the model
QueryEscape(v) == [i \in 1..Len(v) |-> IF v[i] = "@" THEN "%40" ELSE v[i]]
QueryUnescape(v) == [i \in 1..Len(v) |-> IF v[i] = "%40" THEN "@" ELSE v[i]]

\* The client puts each field of the JSON body into the query under the
\* field's name, and ParseMultipartForm reads the query into r.Form
EchoForm(fields) == [k \in DOMAIN fields |-> QueryUnescape(QueryEscape(fields[k]))]

HandshakePeer == [host |-> <<"a">>, ua |-> <<"b">>, remoteAddr |-> <<"a">>, xff |-> <<>>]

HandshakeEnvs ==
    { GoodEnv, [GoodEnv EXCEPT !.refreshToken = <<>>],
      [GoodEnv EXCEPT !.exchangeOK = FALSE] }

InitTemplate ==
    /\ h = [i \in Instances |->
              NewHandlers(BaseConfig(<<"s">>, DefaultScopes), NewOIDC(EmailDomain))]
    /\ ho = <<>>
    /\ req = NoRequest
    /\ rsp = NoResponse
    /\ calls = <<>>
    /\ flow = NoFlow
    /\ flowExchanges = 0
    /\ flowCompleted = 0
    /\ fnReq = NoFnReq
    /\ fnSecret = <<>>
    /\ fnTok = <<>>
    /\ fnTokRemote = <<>>
    /\ snIn = NoScopeStudy
    /\ snOut = NoScopeStudy
    /\ pIn = NoProcessStudy
    /\ pOut = NoProcessStudy
    /\ MainIdle
    /\ \E cfg \in TemplateConfigs, ca \in CAFiles :
          tmpl = [loaded |-> TRUE, cfg |-> cfg, ca |-> ca]
    /\ treq = NoTemplateRequest
    /\ trsp = NoTemplateResponse

\* The Template handler serves a request; echo tells that its query is the
\* body of the callback served before it
ServeTemplateWith(form, env, echo) ==
    /\ treq' = [kind |-> "Template", form |-> form, env |-> env, echo |-> echo]
    /\ trsp' = TemplateRun(tmpl.cfg, [form |-> form], env)
    /\ UNCHANGED <<tmpl, hsVars, fnVars, snVars, pVars, mVars>>

ServeTemplate ==
    /\ treq.kind = "none"
    /\ req.kind = "none"
    /\ \E form \in TemplateForms, env \in TemplateEnvs :
          ServeTemplateWith(form, env, FALSE)

\* A callback of a handshake is served
Handshake ==
    /\ treq.kind = "none"
    /\ req.kind = "none"
    /\ \E env \in HandshakeEnvs :
          LET r0 == MkRequest(HandshakePeer, PlainTransport, EmptyForm)
              r == MkRequest(HandshakePeer, PlainTransport,
                             [EmptyForm EXCEPT !.state = StateOf(h[1], r0),
                                               !.code = <<"a">>])
          IN KubeCfg(1, r, env)

\* The client asks for the kubecfg with the fields of the callback's body
EchoTemplate ==
    /\ treq.kind = "none"
    /\ req.kind = "KubeCfg"
    /\ rsp.headerWrites = <<StatusOK>>
    /\ \E env \in TemplateEnvs :
          ServeTemplateWith(EchoForm(ParseJSON(rsp.body)), env, TRUE)

FinishTemplate ==
    /\ treq.kind # "none"
    /\ treq' = NoTemplateRequest
    /\ trsp' = NoTemplateResponse
    /\ UNCHANGED <<tmpl, hsVars, fnVars, snVars, pVars, mVars>>

FinishHandshake ==
    /\ treq.kind = "none"
    /\ Finish

NextTemplate ==
    ServeTemplate \/ Handshake \/ EchoTemplate \/ FinishTemplate \/ FinishHandshake

SpecTemplate == InitTemplate /\ [][NextTemplate]_vars

----------------------------------------------------------------------------
(* The state function on its own *)

\* X-Forwarded-For headers: up to MaxXFF values, each empty or one character
XFFValues == StrUpTo(1)

RECURSIVE XFFUpTo(_)
XFFUpTo(n) ==
    IF n = 0 THEN {<<>>}
    ELSE LET S == XFFUpTo(n - 1) IN S \cup {Append(s, v) : s \in S, v \in XFFValues}

FnPeers == [host : Str, ua : Str, remoteAddr : Str \ {<<>>}, xff : XFFUpTo(MaxXFF)]

FnRequest(p) == MkRequest(p, PlainTransport, EmptyForm)

InitFn ==
    /\ h = [i \in Instances |->
              NewHandlers(BaseConfig(<<"s">>, DefaultScopes), NewOIDC(EmailDomain))]
    /\ req = NoRequest
    /\ rsp = NoResponse
    /\ calls = <<>>
    /\ flow = NoFlow
    /\ flowExchanges = 0
    /\ flowCompleted = 0
    /\ ho = <<>>
    /\ StudiesIdle
    /\ \E p \in FnPeers : fnReq = [applied |-> FALSE, r |-> FnRequest(p)]
    /\ fnSecret \in Secrets
    /\ fnTok = <<>>
    /\ fnTokRemote = <<>>

\* The state function built from fnSecret is applied to the request
ApplyStateFn ==
    /\ ~fnReq.applied
    /\ fnReq' = [fnReq EXCEPT !.applied = TRUE]
    /\ fnTok' = defaultStateFn(fnSecret, fnReq.r)
    /\ fnTokRemote' = defaultStateFnRemoteAddr(fnSecret, fnReq.r)
    /\ UNCHANGED <<fnSecret, hsVars, snVars, pVars, tVars, mVars>>

NextFn == ApplyStateFn

SpecFn == InitFn /\ [][NextFn]_vars

----------------------------------------------------------------------------
(* The redirect URL of the two legs *)

\* Everything but the variables of main is as after construction and idle
HandshakeIdle ==
    /\ ho = <<>>
    /\ req = NoRequest
    /\ rsp = NoResponse
    /\ calls = <<>>
    /\ flow = NoFlow
    /\ flowExchanges = 0
    /\ flowCompleted = 0
    /\ fnReq = NoFnReq
    /\ fnSecret = <<>>
    /\ fnTok = <<>>
    /\ fnTokRemote = <<>>
    /\ snIn = NoScopeStudy
    /\ snOut = NoScopeStudy
    /\ pIn = NoProcessStudy
    /\ pOut = NoProcessStudy
    /\ TemplateIdle

\* How a request reaches the handler: its Host, whether the connection is
\* TLS, the X-Forwarded-Proto values and the X-Forwarded-Prefix value in its
\* header, and whether its request line carries an absolute URL.  The
\* server sets Host from an absolute URL, so the two hosts agree.
RedirectArrivals ==
    [host : {<<"a">>, <<"b">>},
     tls : BOOLEAN,
     xfp : {<<>>, <<schemeHTTP>>, <<schemeHTTPS>>, <<schemeHTTP, schemeHTTPS>>},
     xfprefix : {<<>>, <<"/p">>},
     absScheme : {"", schemeHTTP, schemeHTTPS}]

\* The request of an arrival, with the form given
RedirectRequest(a, form) ==
    [host |-> a.host, ua |-> <<"b">>, remoteAddr |-> <<"a">>, xff |-> <<>>,
     url |-> IF a.absScheme = "" THEN RelURL
             ELSE [abs |-> TRUE, scheme |-> a.absScheme, host |-> a.host],
     tls |-> a.tls, xfp |-> a.xfp, xfprefix |-> a.xfprefix, form |-> form]

\* The callback of an arrival: the state Login gave this client, and a code
RedirectCallback(hh, a) ==
    RedirectRequest(a, [EmptyForm EXCEPT
                          !.state = StateOf(hh, RedirectRequest(a, EmptyForm)),
                          !.code = <<"a">>])

InitRedirect ==
    /\ h = [i \in Instances |->
              NewHandlers(BaseConfig(<<"s">>, DefaultScopes), NewOIDC(<<>>))]
    /\ HandshakeIdle
    /\ srv = [pc |-> "off"]
    /\ mem = [pc |-> "off"]
    /\ conc = [pc |-> "off"]
    /\ \E a1 \in RedirectArrivals, a2 \in RedirectArrivals :
          rd = [pc |-> "in",
                login |-> RedirectRequest(a1, EmptyForm),
                callback |-> RedirectCallback(h[1], a2)]

\* Login serves the first request and KubeCfg the second; rd keeps the
\* redirect_uri of the Location and the RedirectURL of the config Process
\* was called with.
ServeBothLegs ==
    /\ rd.pc = "in"
    /\ LET out == KubeCfgRun(h[1], rd.callback, GoodEnv)
       IN /\ Len(out.calls) = 1
          /\ rd' = [pc |-> "out", login |-> rd.login, callback |-> rd.callback,
                    advertised |-> LoginRun(h[1], rd.login).location.redirect_uri,
                    exchanged |-> out.calls[1].cfg.RedirectURL]
    /\ UNCHANGED <<hsVars, fnVars, snVars, pVars, tVars, srv, mem, conc>>

NextRedirect == ServeBothLegs

SpecRedirect == InitRedirect /\ [][NextRedirect]_vars

----------------------------------------------------------------------------
(* ScopeRequests.Get on slices *)

\* A slice is a header [arr, len, cap] over a backing array; mem.arrays
\* holds the arrays, unused places being "".
SliceRead(arrays, s) == SubSeq(arrays[s.arr], 1, s.len)

\* A slip: DefaultScopes is built with spare capacity behind its elements.
DefaultScopesBacking_SpareCapacity == DefaultScopes \o <<"", "", "">>

\* The array behind DefaultScopes: a composite literal's, as long as the list
DefaultScopesBacking == DefaultScopes

\* append(s, xs...): in place when the capacity suffices, and otherwise
\* into a new array of at least double the capacity, the old one untouched
GoAppend(arrays, s, xs) ==
    LET need == s.len + Len(xs)
    IN IF need <= s.cap
       THEN [arrays |-> [arrays EXCEPT ![s.arr] =
                           [i \in 1..s.cap |->
                              IF i > s.len /\ i <= need THEN xs[i - s.len]
                              ELSE arrays[s.arr][i]]],
             slice |-> [arr |-> s.arr, len |-> need, cap |-> s.cap]]
       ELSE LET ncap == IF need > 2 * s.cap THEN need ELSE 2 * s.cap
            IN [arrays |-> Append(arrays,
                              [i \in 1..ncap |->
                                 IF i <= s.len THEN arrays[s.arr][i]
                                 ELSE IF i <= need THEN xs[i - s.len] ELSE ""]),
                slice |-> [arr |-> Len(arrays) + 1, len |-> need, cap |-> ncap]]

\* The receivers Get is called on
ScopeReceivers ==
    [OfflineAsScope : BOOLEAN,
     ExtraScopes : {<<>>, <<"groups">>, <<"groups", "audience">>}]

NoSlice == [arr |-> 0, len |-> 0, cap |-> 0]

NoGet == [pc |-> "idle", r |-> [OfflineAsScope |-> FALSE, ExtraScopes |-> <<>>],
          scopes |-> NoSlice, result |-> NoSlice, returned |-> <<>>]

InitSlices ==
    /\ h = [i \in Instances |->
              NewHandlers(BaseConfig(<<"s">>, DefaultScopes), NewOIDC(<<>>))]
    /\ HandshakeIdle
    /\ rd = [pc |-> "off"]
    /\ srv = [pc |-> "off"]
    /\ conc = [pc |-> "off"]
    /\ mem = [pc |-> "on",
              arrays |-> <<DefaultScopesBacking>>,
              dflt |-> [arr |-> 1, len |-> Len(DefaultScopes),
                        cap |-> Len(DefaultScopesBacking)],
              gets |-> [c \in 1..MaxGets |-> NoGet]]

\* Call c of Get begins on receiver r: scopes := DefaultScopes
GetAssign ==
    \E c \in 1..MaxGets, r \in ScopeReceivers :
        /\ mem.gets[c].pc = "idle"
        /\ mem' = [mem EXCEPT !.gets[c] =
                      [NoGet EXCEPT !.pc = "offline", !.r = r, !.scopes = mem.dflt]]
        /\ UNCHANGED <<hsVars, fnVars, snVars, pVars, tVars, rd, srv, conc>>

\* if r.OfflineAsScope { scopes = append(scopes, oidc.ScopeOfflineAccess) }
GetOffline ==
    \E c \in 1..MaxGets :
        LET g == mem.gets[c]
            out == GoAppend(mem.arrays, g.scopes, <<ScopeOfflineAccess>>)
        IN /\ g.pc = "offline"
           /\ mem' = IF g.r.OfflineAsScope
                      THEN [mem EXCEPT !.arrays = out.arrays,
                                       !.gets[c].scopes = out.slice,
                                       !.gets[c].pc = "extras"]
                      ELSE [mem EXCEPT !.gets[c].pc = "extras"]
           /\ UNCHANGED <<hsVars, fnVars, snVars, pVars, tVars, rd, srv, conc>>

\* return append(scopes, r.ExtraScopes...); returned keeps the list as the
\* caller received it
GetReturn ==
    \E c \in 1..MaxGets :
        LET g == mem.gets[c]
            out == GoAppend(mem.arrays, g.scopes, g.r.ExtraScopes)
        IN /\ g.pc = "extras"
           /\ mem' = [mem EXCEPT !.arrays = out.arrays,
                                 !.gets[c].result = out.slice,
                                 !.gets[c].returned = SliceRead(out.arrays, out.slice),
                                 !.gets[c].pc = "done"]
           /\ UNCHANGED <<hsVars, fnVars, snVars, pVars, tVars, rd, srv, conc>>

NextSlices == GetAssign \/ GetOffline \/ GetReturn

SpecSlices == InitSlices /\ [][NextSlices]_vars

----------------------------------------------------------------------------
(* main: serving and shutting down *)

\* --shutdown-grace-period, in ticks of the clock
Grace == 2

\* The goroutines that run the shutdown routine: 0 is the SIGTERM goroutine,
\* the others are started by GETs to the shutdown endpoint
Shutters == 0..MaxQuits

NoShutter == [pc |-> "idle", at |-> 0, early |-> FALSE]

\* The process runs until main returns or a goroutine panics
Running == srv.pc = "on" /\ srv.main # "exited" /\ ~srv.panicked

\* main up to ListenAndServe: the context with its deadline and the done
\* channel are made at start-up, at time 0; the shutdown endpoint is
\* registered when the flag is set.
InitMain ==
    /\ h = [i \in Instances |->
              NewHandlers(BaseConfig(<<"s">>, DefaultScopes), NewOIDC(<<>>))]
    /\ HandshakeIdle
    /\ rd = [pc |-> "off"]
    /\ mem = [pc |-> "off"]
    /\ conc = [pc |-> "off"]
    /\ \E ep \in BOOLEAN :
          srv = [pc |-> "on", now |-> 0, deadline |-> 0 + Grace, endpoint |-> ep,
                 main |-> "serve", server |-> "serving", inflight |-> 0,
                 closes |-> 0, panicked |-> FALSE,
                 g |-> [i \in Shutters |-> NoShutter]]

\* Time passes
Tick ==
    /\ Running
    /\ srv.now < MaxClock
    /\ srv' = [srv EXCEPT !.now = @ + 1]
    /\ UNCHANGED <<hsVars, fnVars, snVars, pVars, tVars, rd, mem, conc>>

\* The server accepts a request of a session
RequestArrives ==
    /\ Running
    /\ srv.server = "serving"
    /\ srv.inflight < MaxInflight
    /\ srv' = [srv EXCEPT !.inflight = @ + 1]
    /\ UNCHANGED <<hsVars, fnVars, snVars, pVars, tVars, rd, mem, conc>>

\* A request in flight ends
RequestEnds ==
    /\ Running
    /\ srv.inflight > 0
    /\ srv' = [srv EXCEPT !.inflight = @ - 1]
    /\ UNCHANGED <<hsVars, fnVars, snVars, pVars, tVars, rd, mem, conc>>

\* SIGTERM arrives: the signal goroutine receives it and calls shutdown()
Sigterm ==
    /\ Running
    /\ srv.g[0].pc = "idle"
    /\ srv' = [srv EXCEPT !.g[0] = [pc |-> "shutdown", at |-> srv.now, early |-> FALSE]]
    /\ UNCHANGED <<hsVars, fnVars, snVars, pVars, tVars, rd, mem, conc>>

\* run(shutdown) serves a GET to the shutdown endpoint: go fn()
QuitRequest ==
    /\ Running
    /\ srv.endpoint
    /\ srv.server = "serving"
    /\ \E i \in Shutters \ {0} :
          /\ srv.g[i].pc = "idle"
          /\ \A j \in Shutters \ {0} : j < i => srv.g[j].pc # "idle"
          /\ srv' = [srv EXCEPT !.g[i] = [pc |-> "shutdown", at |-> srv.now,
                                          early |-> FALSE]]
    /\ UNCHANGED <<hsVars, fnVars, snVars, pVars, tVars, rd, mem, conc>>

\* s.Shutdown(ctx) is called: the listeners close, ListenAndServe returns
CallShutdown ==
    /\ Running
    /\ \E i \in Shutters :
          /\ srv.g[i].pc = "shutdown"
          /\ srv' = [srv EXCEPT !.g[i].pc = "draining",
                                !.server = IF @ = "serving" THEN "closed" ELSE @]
    /\ UNCHANGED <<hsVars, fnVars, snVars, pVars, tVars, rd, mem, conc>>

\* s.Shutdown(ctx) returns: no request is in flight, or ctx is done; early
\* notes a return with a request in flight less than the grace period after
\* the trigger.
ShutdownReturns ==
    /\ Running
    /\ \E i \in Shutters :
          /\ srv.g[i].pc = "draining"
          /\ srv.inflight = 0 \/ srv.now >= srv.deadline
          /\ srv' = [srv EXCEPT !.g[i].pc = "close",
                                !.g[i].early = /\ srv.inflight > 0
                                               /\ srv.now < srv.g[i].at + Grace]
    /\ UNCHANGED <<hsVars, fnVars, snVars, pVars, tVars, rd, mem, conc>>

\* close(done): closing a closed channel panics
CloseDone ==
    /\ Running
    /\ \E i \in Shutters :
          /\ srv.g[i].pc = "close"
          /\ srv' = [srv EXCEPT !.g[i].pc = "end",
                                !.closes = @ + 1,
                                !.panicked = srv.closes > 0]
    /\ UNCHANGED <<hsVars, fnVars, snVars, pVars, tVars, rd, mem, conc>>

\* s.ListenAndServe() returns http.ErrServerClosed once Shutdown was called
ListenReturns ==
    /\ Running
    /\ srv.main = "serve"
    /\ srv.server = "closed"
    /\ srv' = [srv EXCEPT !.main = "wait"]
    /\ UNCHANGED <<hsVars, fnVars, snVars, pVars, tVars, rd, mem, conc>>

\* s.ListenAndServe() returns an error of its own: the bind failed, or a
\* later Accept did
ListenFails ==
    /\ Running
    /\ srv.main = "serve"
    /\ srv.server = "serving"
    /\ srv' = [srv EXCEPT !.main = "wait", !.server = "failed"]
    /\ UNCHANGED <<hsVars, fnVars, snVars, pVars, tVars, rd, mem, conc>>

\* <-done
ReceiveDone ==
    /\ Running
    /\ srv.main = "wait"
    /\ srv.closes > 0
    /\ srv' = [srv EXCEPT !.main = "cancel"]
    /\ UNCHANGED <<hsVars, fnVars, snVars, pVars, tVars, rd, mem, conc>>

\* cancel(), and main returns
Cancel ==
    /\ Running
    /\ srv.main = "cancel"
    /\ srv' = [srv EXCEPT !.main = "exited"]
    /\ UNCHANGED <<hsVars, fnVars, snVars, pVars, tVars, rd, mem, conc>>

NextMain ==
    \/ Tick
    \/ RequestArrives
    \/ RequestEnds
    \/ Sigterm
    \/ QuitRequest
    \/ ListenFails
    \/ CallShutdown
    \/ ShutdownReturns
    \/ CloseDone
    \/ ListenReturns
    \/ ReceiveDone
    \/ Cancel

SpecMain == InitMain /\ [][NextMain]_vars

\* The scheduler runs every goroutine that can take a step, and time
\* passes; signals, requests and failures come as they will.
SpecMainFair ==
    /\ InitMain
    /\ [][NextMain]_vars
    /\ WF_vars(Tick)
    /\ WF_vars(CallShutdown)
    /\ WF_vars(ShutdownReturns)
    /\ WF_vars(CloseDone)
    /\ WF_vars(ListenReturns)
    /\ WF_vars(ReceiveDone)
    /\ WF_vars(Cancel)

----------------------------------------------------------------------------
(* Concurrent requests over the shared state *)

\* The requests served concurrently: Login and a callback that passes the
\* handler's checks, over plain HTTP and over TLS, and Template for two users
ConcurrentRequests ==
    {[kind |-> "Login", inst |-> i, input |-> MkRequest(HandshakePeer, t, EmptyForm)] :
        i \in Instances, t \in CallbackTransports}
    \cup {[kind |-> "KubeCfg", inst |-> i,
           input |-> MkRequest(HandshakePeer, t,
                        [EmptyForm EXCEPT
                           !.state = defaultStateFn(<<"s">>,
                                       MkRequest(HandshakePeer, t, EmptyForm)),
                           !.code = <<"a">>])] :
        i \in Instances, t \in CallbackTransports}
    \cup {[kind |-> "Template", inst |-> 0, input |-> [form |-> FullForm(u)]] :
        u \in {<<"u">>, templateUser}}

\* A slip of Template: the CA backfill is written into the template's own
\* cluster entries, which every request shares.
ServeShared_BackfillInPlace(store, q) ==
    IF q.kind = "Template"
    THEN LET filled ==
               [n \in DOMAIN store.tmpl.cfg.Clusters |->
                  LET cl == store.tmpl.cfg.Clusters[n]
                  IN IF /\ cl.CertificateAuthorityData = <<>>
                        /\ cl.CertificateAuthority = <<>>
                        /\ store.tmpl.ca.readable
                     THEN [cl EXCEPT !.CertificateAuthorityData = store.tmpl.ca.data]
                     ELSE cl]
             after == [store EXCEPT !.tmpl.cfg.Clusters = filled]
         IN [store |-> after,
             own |-> BuildConfig(after.tmpl.cfg, Decode(q.input.form).p)]
    ELSE [store |-> store, own |-> RequestConfig(store.h[q.inst], q.input)]

\* What a handler does with the shared state [h, tmpl] and what it builds
\* for its request: Login and KubeCfg copy the fields of h.cfg into a new
\* oauth2.Config, Template fills a new api.Config; none assigns to h, to
\* h.cfg or to the template.
ServeShared(store, q) ==
    IF q.kind = "Template"
    THEN [store |-> store,
          own |-> BuildConfig(store.tmpl.cfg, Decode(q.input.form).p)]
    ELSE [store |-> store, own |-> RequestConfig(store.h[q.inst], q.input)]

NoSlot == [kind |-> "none"]

InitConcurrent ==
    /\ ho = <<>>
    /\ req = NoRequest
    /\ rsp = NoResponse
    /\ calls = <<>>
    /\ flow = NoFlow
    /\ flowExchanges = 0
    /\ flowCompleted = 0
    /\ fnReq = NoFnReq
    /\ fnSecret = <<>>
    /\ fnTok = <<>>
    /\ fnTokRemote = <<>>
    /\ snIn = NoScopeStudy
    /\ snOut = NoScopeStudy
    /\ pIn = NoProcessStudy
    /\ pOut = NoProcessStudy
    /\ treq = NoTemplateRequest
    /\ trsp = NoTemplateResponse
    /\ rd = [pc |-> "off"]
    /\ srv = [pc |-> "off"]
    /\ mem = [pc |-> "off"]
    /\ \E scopes \in ScopeLists, cfg \in TemplateConfigs, ca \in CAFiles :
          /\ h = [i \in Instances |->
                    NewHandlers(BaseConfig(<<"s">>, scopes), NewOIDC(<<>>))]
          /\ tmpl = [loaded |-> TRUE, cfg |-> cfg, ca |-> ca]
          /\ conc = [pc |-> "on",
                     boot |-> [h |-> h, tmpl |-> tmpl],
                     slots |-> [s \in 1..MaxConcurrent |-> NoSlot]]

\* A goroutine of the server takes request q and runs its handler up to the
\* config the handler builds
BeginRequest(q) ==
    /\ conc.pc = "on"
    /\ q.kind = "KubeCfg" => ReachesProcess(h[q.inst], q.input)
    /\ \E s \in 1..MaxConcurrent :
          LET out == ServeShared([h |-> h, tmpl |-> tmpl], q)
          IN /\ conc.slots[s].kind = "none"
             /\ h' = out.store.h
             /\ tmpl' = out.store.tmpl
             /\ conc' = [conc EXCEPT !.slots[s] =
                            [kind |-> q.kind, inst |-> q.inst, input |-> q.input,
                             own |-> out.own]]
    /\ UNCHANGED <<ho, req, rsp, calls, flow, flowExchanges, flowCompleted,
                   fnVars, snVars, pVars, treq, trsp, rd, srv, mem>>

BeginLogin == \E q \in ConcurrentRequests : q.kind = "Login" /\ BeginRequest(q)

BeginKubeCfg == \E q \in ConcurrentRequests : q.kind = "KubeCfg" /\ BeginRequest(q)

BeginTemplate == \E q \in ConcurrentRequests : q.kind = "Template" /\ BeginRequest(q)

\* A handler returns and its config is dropped
EndRequest ==
    /\ conc.pc = "on"
    /\ \E s \in 1..MaxConcurrent :
          /\ conc.slots[s].kind # "none"
          /\ conc' = [conc EXCEPT !.slots[s] = NoSlot]
    /\ UNCHANGED <<hsVars, fnVars, snVars, pVars, tVars, rd, srv, mem>>

NextConcurrent == BeginLogin \/ BeginKubeCfg \/ BeginTemplate \/ EndRequest

SpecConcurrent == InitConcurrent /\ [][NextConcurrent]_vars

----------------------------------------------------------------------------
(* Properties: vocabulary *)

ServedKubeCfg == req.kind = "KubeCfg"
ServedLogin == req.kind = "Login"

\* The state parameter of the served request equals the recomputed token
StateValid == FormValue(req.r, "state") = StateOf(h[req.inst], req.r)

IsInvalidState(rs) ==
    rs.status = StatusForbidden /\ rs.body = ErrInvalidState \o <<"\n">>

IsMissingCode(rs) ==
    rs.status = StatusBadRequest /\ rs.body = ErrMissingCode \o <<"\n">>

IsProviderDenied(rs, r) ==
    /\ rs.status = StatusForbidden
    /\ FormValue(r, "error") # <<>>
    /\ HasPrefix(rs.body, FormValue(r, "error"))

IsExchangeFailed(rs) ==
    rs.status = StatusForbidden /\ HasPrefix(rs.body, <<"cannot process OAuth2 code">>)

CountOf(s, x) == Cardinality({i \in 1..Len(s) : s[i] = x})

----------------------------------------------------------------------------
(* C1 *)

\* C1: a callback whose state parameter differs from the token recomputed
\* for the same request (a missing parameter included) is answered 403
\* "invalid state parameter", and the extractor is not invoked.
C1_InvalidStateRejected ==
    (ServedKubeCfg /\ ~StateValid) =>
        /\ rsp.status = StatusForbidden
        /\ rsp.headerWrites = <<StatusForbidden>>
        /\ rsp.body = ErrInvalidState \o <<"\n">>
        /\ calls = <<>>

\* A callback carrying a token made for another peer, with a code and no
\* error parameter, was refused.
C1_Witness ==
    /\ ServedKubeCfg
    /\ ~StateValid
    /\ HasPrefix(FormValue(req.r, "state"), <<"#">>)
    /\ FormValue(req.r, "code") # <<>>
    /\ FormValue(req.r, "error") = <<>>
    /\ rsp.status = StatusForbidden

----------------------------------------------------------------------------
(* C2 *)

\* C2: the checks of a callback run in the order state, error parameter,
\* code, exchange, and the first failing one decides the response: an
\* invalid state gives InvalidState even with an error parameter; a valid
\* state with an error parameter gives ProviderDenied with or without a
\* code; MissingCode is reported only with a valid state and no error
\* parameter; the exchange runs only after all three checks passed.
C2_CheckOrder ==
    ServedKubeCfg =>
        /\ ~StateValid => IsInvalidState(rsp)
        /\ (StateValid /\ FormValue(req.r, "error") # <<>>) =>
              /\ IsProviderDenied(rsp, req.r)
              /\ ~IsInvalidState(rsp) /\ ~IsMissingCode(rsp) /\ ~IsExchangeFailed(rsp)
        /\ IsMissingCode(rsp) => (StateValid /\ FormValue(req.r, "error") = <<>>)
        /\ (StateValid /\ FormValue(req.r, "error") = <<>>
              /\ FormValue(req.r, "code") = <<>>) => IsMissingCode(rsp)
        /\ calls # <<>> =>
              /\ StateValid
              /\ FormValue(req.r, "error") = <<>>
              /\ FormValue(req.r, "code") # <<>>

\* A callback with a valid state, an error parameter and a code was denied
\* as the provider's error.
C2_Witness ==
    /\ ServedKubeCfg
    /\ StateValid
    /\ FormValue(req.r, "error") # <<>>
    /\ FormValue(req.r, "code") # <<>>
    /\ IsProviderDenied(rsp, req.r)
    /\ calls = <<>>

----------------------------------------------------------------------------
(* C3 *)

\* C3: one callback invokes the extractor's Process at most once, and only
\* with a valid state, no provider error and the non-empty code of the
\* request; the invocation exchanges the code once, failed or not.
C3_ProcessAtMostOnce ==
    ServedKubeCfg =>
        /\ Len(calls) <= 1
        /\ calls # <<>> =>
              /\ StateValid
              /\ FormValue(req.r, "error") = <<>>
              /\ FormValue(req.r, "code") # <<>>
              /\ calls[1].code = FormValue(req.r, "code")
              /\ CountOf(calls[1].result.steps, "exchange") = 1

\* A callback whose code exchange failed: one invocation, one exchange, 403.
C3_Witness ==
    /\ ServedKubeCfg
    /\ Len(calls) = 1
    /\ calls[1].result.steps = <<"exchange">>
    /\ calls[1].result.err # NoErr
    /\ rsp.status = StatusForbidden

----------------------------------------------------------------------------
(* C4 *)

\* C4: a callback that does not end in the 200 response carries none of the
\* identity token, the refresh token or the client secret in its body, and
\* Process returns parameters only together with a nil error.
C4_NoPartialCredentials ==
    ServedKubeCfg =>
        /\ rsp.status # StatusOK =>
              /\ ~Contains(rsp.body, IDToken)
              /\ ~Contains(rsp.body, RefreshToken)
              /\ ~Contains(rsp.body, h[req.inst].cfg.ClientSecret)
        /\ \A i \in 1..Len(calls) :
              calls[i].result.params # NilParams => calls[i].result.err = NoErr
        /\ \A i \in 1..Len(calls) :
              calls[i].result.err # NoErr => rsp.status # StatusOK

\* The provider issued verified tokens, the email domain was refused, and
\* the callback answered 403 without parameters.
C4_Witness ==
    /\ ServedKubeCfg
    /\ Len(calls) = 1
    /\ CountOf(calls[1].result.steps, "domain") = 1
    /\ calls[1].result.err # NoErr
    /\ calls[1].result.params = NilParams
    /\ rsp.status = StatusForbidden

----------------------------------------------------------------------------
(* C5 - C7: the flow *)

\* The served callback carries the state the flow's Login put in its redirect
CarriesFlowState ==
    /\ ServedKubeCfg
    /\ flow.started
    /\ FormValue(req.r, "state") = flow.state

SameSecretAsFlow ==
    h[req.inst].cfg.ClientSecret = h[flow.inst].cfg.ClientSecret

\* The number of fields in which two fingerprints differ
FieldsDiffering(f, g) == Cardinality({k \in 1..3 : f[k] # g[k]})

\* C5 as stated: for the flow of one Login at most one callback ends in the
\* 200 response, and a replayed callback with the same state from the same
\* fingerprint starts no second code exchange.
C5_ExactlyOncePerFlow ==
    /\ flowCompleted <= 1
    /\ flowExchanges <= 1

\* C5 as amended: every callback that carries the flow's state from the
\* flow's fingerprint, with a code and no error parameter, starts exactly one
\* code exchange of its own, the first such callback and every replay alike;
\* no callback starts more than one.
C5_OneExchangePerCallback ==
    /\ ServedKubeCfg => Len(calls) <= 1
    /\ (CarriesFlowState /\ SameSecretAsFlow /\ Fingerprint(req.r) = flow.fp
          /\ FormValue(req.r, "error") = <<>> /\ FormValue(req.r, "code") # <<>>)
       => (Len(calls) = 1 /\ flowExchanges >= 1)
    /\ flowCompleted <= flowExchanges

\* A replay: the second callback of the flow exchanged its code again and
\* was answered 200 like the first.
C5_Witness ==
    /\ CarriesFlowState
    /\ Fingerprint(req.r) = flow.fp
    /\ Len(calls) = 1
    /\ flowExchanges = 2
    /\ flowCompleted = 2
    /\ rsp.status = StatusOK

\* C6: a callback with the fingerprint of the flow's Login (host, user
\* agent, resolved client address) that carries the Login's state passes
\* the state check on every instance holding the same client secret,
\* whatever was served in between.
C6_StatelessCompleteness ==
    (CarriesFlowState /\ SameSecretAsFlow /\ Fingerprint(req.r) = flow.fp)
       => (~IsInvalidState(rsp) /\ StateValid)

\* The callback was served by the instance that did not serve the Login,
\* after other callbacks of the flow, from a connection whose remote address
\* is not the resolved one, and it passed.
C6_Witness ==
    /\ CarriesFlowState
    /\ SameSecretAsFlow
    /\ Fingerprint(req.r) = flow.fp
    /\ req.inst # flow.inst
    /\ req.r.remoteAddr # ResolvedRemote(req.r)
    /\ flowExchanges = 2
    /\ rsp.status = StatusOK

\* C7: with the same secret, a callback whose fingerprint differs from the
\* flow's in exactly one field (host, user agent or resolved client address)
\* and that carries the flow's state is refused as InvalidState; the
\* extractor is not invoked.
C7_FailsClosedOnDrift ==
    (CarriesFlowState /\ SameSecretAsFlow
        /\ FieldsDiffering(Fingerprint(req.r), flow.fp) = 1)
       => (IsInvalidState(rsp) /\ calls = <<>>)

\* Only the user agent drifted, and the callback, code and all, was refused.
C7_Witness ==
    /\ CarriesFlowState
    /\ SameSecretAsFlow
    /\ FieldsDiffering(Fingerprint(req.r), flow.fp) = 1
    /\ Fingerprint(req.r)[3] # flow.fp[3]
    /\ FormValue(req.r, "code") # <<>>
    /\ IsInvalidState(rsp)

----------------------------------------------------------------------------
(* C8, C9: the state function *)

\* The requests that share host and user agent with the one studied
SameHostAndAgent ==
    {[fnReq.r EXCEPT !.remoteAddr = a, !.xff = x] :
        a \in Str \ {<<>>}, x \in XFFUpTo(MaxXFF)}

\* C8 as stated: two calls on requests with identical host, user agent and
\* secret give identical tokens.
C8_SameHostAgentSecret ==
    fnReq.applied =>
        \A r2 \in SameHostAndAgent : defaultStateFn(fnSecret, r2) = fnTok

\* C8 as amended: two calls on requests with identical host, user agent,
\* client address and secret give identical tokens, the client address being
\* the last X-Forwarded-For value when the header is supplied and the remote
\* address otherwise (the remote address alone in the variant that does not
\* read the header).
C8_Deterministic ==
    fnReq.applied =>
        \A r2 \in SameHostAndAgent :
            /\ ResolvedRemote(r2) = ResolvedRemote(fnReq.r)
                  => defaultStateFn(fnSecret, r2) = fnTok
            /\ r2.remoteAddr = fnReq.r.remoteAddr
                  => defaultStateFnRemoteAddr(fnSecret, r2) = fnTokRemote

\* The function was applied to a request with two forwarded addresses that
\* differ from each other and from the remote address.
C8_Witness ==
    /\ fnReq.applied
    /\ Len(fnReq.r.xff) = 2
    /\ fnReq.r.xff[1] # fnReq.r.xff[2]
    /\ fnReq.r.remoteAddr # fnReq.r.xff[2]
    /\ fnTok # fnTokRemote

\* C9: requests whose (host, resolved client address, user agent) differ,
\* in one field or in several, get different tokens under the same secret.
C9_DistinctFingerprintsDistinctTokens ==
    fnReq.applied =>
        \A hst \in Str, addr \in Str, agent \in Str :
            LET r2 == [fnReq.r EXCEPT !.host = hst, !.xff = <<addr>>, !.ua = agent]
            IN Fingerprint(r2) # Fingerprint(fnReq.r)
                  => defaultStateFn(fnSecret, r2) # fnTok

----------------------------------------------------------------------------
(* C10: Login *)

\* strings.Split(scope, " ")
SplitScope(scope) == SelectSeq(scope, LAMBDA x : x # " ")

LoginRedirectOK ==
    ServedLogin =>
        LET hh == h[req.inst]
            loc == rsp.location
        IN /\ rsp.status = StatusSeeOther
           /\ loc.base = hh.cfg.Endpoint.AuthURL
           /\ {"client_id", "redirect_uri", "response_type", "scope", "state"}
                 \subseteq loc.present
           /\ loc.client_id = hh.cfg.ClientID
           /\ loc.redirect_uri.host # <<>>
           /\ loc.response_type = "code"
           /\ SplitScope(loc.scope) = hh.cfg.Scopes
           /\ loc.state = StateOf(hh, req.r)
           /\ req.r.form = EmptyForm

\* C10: Login answers every request 303 with a Location on the provider's
\* authorization endpoint that carries client_id, redirect_uri,
\* response_type=code, scope (the configured scopes, joined in order) and
\* state (the state function's value for the request); the request needs no
\* query parameter, and serving it leaves the handler sets as they were.
C10_LoginRedirect ==
    /\ []LoginRedirectOK
    /\ [][ServedLogin' => h' = h]_vars

\* A Login that arrived over TLS with the offline scope
\* configured was redirected.
C10_Witness ==
    /\ ServedLogin
    /\ rsp.status = StatusSeeOther
    /\ rsp.location.redirect_uri.scheme = schemeHTTPS
    /\ Len(h[req.inst].cfg.Scopes) = 4
    /\ Len(req.r.xff) > 0

----------------------------------------------------------------------------
(* C11: offline access is asked for by exactly one mechanism *)

HasAccessTypeOffline(loc) ==
    "access_type" \in loc.present /\ loc.access_type = "offline"

AsksOfflineScope(loc) ==
    "scope" \in loc.present /\ SeqContains(SplitScope(loc.scope), ScopeOfflineAccess)

NoAuthCodeOptions == \A i \in 1..Len(ho) : ho[i].name # "AuthCodeOptions"

\* C11 as stated: for every Handlers returned by NewHandlers, the Login
\* redirect carries access_type=offline exactly when the scope list lacks
\* offline_access.  An AuthCodeOptions option overrides the choice.
C11_EveryHandlers ==
    ServedLogin => (HasAccessTypeOffline(rsp.location) <=> ~AsksOfflineScope(rsp.location))

\* C11, amended: for every Handlers returned by NewHandlers that was given
\* no AuthCodeOptions option, the Login redirect carries access_type=offline
\* if and only if its scope list does not contain offline_access.
C11_AccessTypeIffNoOfflineScope ==
    (ServedLogin /\ NoAuthCodeOptions)
        => (HasAccessTypeOffline(rsp.location) <=> ~AsksOfflineScope(rsp.location))

C11_Witness ==
    /\ ServedLogin
    /\ Len(ho) = 1 /\ ho[1].name = "StateFunction"
    /\ AsksOfflineScope(rsp.location)
    /\ ~HasAccessTypeOffline(rsp.location)

----------------------------------------------------------------------------
(* C12: the consent prompt *)

\* C12: the Login redirect Location always contains prompt=consent.
C12_PromptConsent ==
    ServedLogin => "prompt" \in rsp.location.present

----------------------------------------------------------------------------
(* C13, C14: scope negotiation *)

Negotiated == snOut.pc \in {"negotiated", "got"}
GotScopes == snOut.pc = "got"

\* The provider's list as an operator reads it: none when the metadata
\* cannot be decoded or does not carry the field
ListIsUsable == snIn.p.claimsOK /\ snIn.p.hasField /\ snIn.p.scopes # <<>>

\* C13: OfflineAsScope is true when the supported-scopes list is empty or
\* absent or the metadata cannot be decoded, true when the list contains
\* offline_access, and false for every non-empty list that lacks it.
C13_OfflineAsScope ==
    Negotiated =>
        /\ ~ListIsUsable => snOut.offline
        /\ (ListIsUsable /\ SeqContains(snIn.p.scopes, ScopeOfflineAccess))
               => snOut.offline
        /\ (ListIsUsable /\ ~SeqContains(snIn.p.scopes, ScopeOfflineAccess))
               => ~snOut.offline

C13_Witness ==
    /\ Negotiated
    /\ ListIsUsable
    /\ ~SeqContains(snIn.p.scopes, ScopeOfflineAccess)
    /\ ~snOut.offline

\* C14: Get returns the default scopes first (openid leading), then
\* offline_access if and only if OfflineAsScope is true, then the extra
\* scopes in the caller's order, nothing dropped or reordered.
C14_GetOrder ==
    GotScopes =>
        LET out == snOut.scopes
            k == IF snOut.offline THEN 4 ELSE 3
        IN /\ Len(out) = k + Len(snIn.extra)
           /\ out[1] = "openid" /\ out[2] = "profile" /\ out[3] = "email"
           /\ snOut.offline => out[4] = "offline_access"
           /\ \A i \in 1..Len(snIn.extra) : out[k + i] = snIn.extra[i]

C14_Witness ==
    /\ GotScopes
    /\ snOut.offline
    /\ Len(snIn.extra) = 2 /\ snIn.extra[1] # snIn.extra[2]
    /\ snOut.scopes = <<"openid", "profile", "email", "offline_access">> \o snIn.extra

----------------------------------------------------------------------------
(* C15, C16: the provider's error and the missing code *)

\* The served callback has a valid state and an error parameter
DeniedByProvider ==
    ServedKubeCfg /\ StateValid /\ FormValue(req.r, "error") # <<>>

\* C15: a callback with valid state and an error parameter is answered 403
\* with the error alone, "error: description" when a description is given,
\* and " (see uri)" appended when a uri is given; the extractor is not
\* invoked.
C15_ProviderDenied ==
    DeniedByProvider =>
        LET e == FormValue(req.r, "error")
            desc == FormValue(req.r, "error_description")
            uri == FormValue(req.r, "error_uri")
            line == <<"\n">>
        IN /\ rsp.status = StatusForbidden
           /\ rsp.headerWrites = <<StatusForbidden>>
           /\ calls = <<>>
           /\ (desc = <<>> /\ uri = <<>>) => rsp.body = e \o line
           /\ (desc # <<>> /\ uri = <<>>) => rsp.body = e \o <<": ">> \o desc \o line
           /\ (desc = <<>> /\ uri # <<>>) =>
                 rsp.body = e \o <<" (see ">> \o uri \o <<")">> \o line
           /\ (desc # <<>> /\ uri # <<>>) =>
                 rsp.body = e \o <<": ">> \o desc \o <<" (see ">> \o uri \o <<")">> \o line

\* The provider sent an error with a description and a uri
C15_Witness ==
    /\ DeniedByProvider
    /\ FormValue(req.r, "error_description") # <<>>
    /\ FormValue(req.r, "error_uri") # <<>>
    /\ FormValue(req.r, "code") # <<>>
    /\ rsp.status = StatusForbidden
    /\ calls = <<>>

\* The served callback has a valid state, no error parameter and no code
CodeMissing ==
    /\ ServedKubeCfg /\ StateValid
    /\ FormValue(req.r, "error") = <<>>
    /\ FormValue(req.r, "code") = <<>>

\* C16: a callback with valid state, no provider error and no code is
\* answered 400 with "response missing authorization code", and the
\* extractor is not invoked.
C16_MissingCode ==
    CodeMissing =>
        /\ rsp.status = StatusBadRequest
        /\ rsp.headerWrites = <<StatusBadRequest>>
        /\ rsp.body = <<"response missing authorization code", "\n">>
        /\ calls = <<>>

C16_Witness ==
    /\ CodeMissing
    /\ rsp.status = StatusBadRequest
    /\ calls = <<>>

----------------------------------------------------------------------------
(* C17, C18: the exchange leg and the statuses written *)

\* The served callback passed the state, error and code checks
PassedChecks ==
    /\ ServedKubeCfg /\ StateValid
    /\ FormValue(req.r, "error") = <<>>
    /\ FormValue(req.r, "code") # <<>>

\* The body carries a field of the parameters under its name
CarriesField(body, name, value) == Contains(body, <<name \o ":">> \o value)

\* The body is the JSON of the parameters p, each of the six fields in it
IsJSONOf(body, p) ==
    /\ body = MarshalJSON(p)
    /\ CarriesField(body, "email", p["email"])
    /\ CarriesField(body, "clientID", p["clientID"])
    /\ CarriesField(body, "clientSecret", p["clientSecret"])
    /\ CarriesField(body, "idToken", p["idToken"])
    /\ CarriesField(body, "refreshToken", p["refreshToken"])
    /\ CarriesField(body, "issuer", p["issuer"])

IsJSONType(ctype) == ctype \in {"application/json", "application/json; charset=utf-8"}

\* C17 as stated: after the checks, a failed Process gives 403 and a
\* successful one gives 200 with Content-Type application/json and a body
\* that is the JSON of exactly the parameters Process returned.
C17_ExchangeOutcome ==
    PassedChecks =>
        /\ Len(calls) = 1
        /\ calls[1].result.err # NoErr => rsp.status = StatusForbidden
        /\ calls[1].result.err = NoErr =>
              /\ rsp.status = StatusOK
              /\ IsJSONType(rsp.ctype)
              /\ IsJSONOf(rsp.body, calls[1].result.params)

\* C17, amended: a failed Process gives 403; a successful one gives 200 with
\* Content-Type application/json, and the body is the JSON of exactly the
\* parameters Process returned when the write of the body succeeds; when
\* the write fails the body is only the part of that JSON already written.
C17_ExchangeOutcomeWritten ==
    PassedChecks =>
        /\ Len(calls) = 1
        /\ calls[1].result.err # NoErr =>
              rsp.status = StatusForbidden /\ rsp.headerWrites = <<StatusForbidden>>
        /\ calls[1].result.err = NoErr =>
              /\ rsp.status = StatusOK
              /\ IsJSONType(rsp.ctype)
              /\ req.env.writeOK => IsJSONOf(rsp.body, calls[1].result.params)
              /\ ~req.env.writeOK =>
                    /\ HasPrefix(MarshalJSON(calls[1].result.params), rsp.body)
                    /\ Len(rsp.body) = req.env.wrote

\* Process succeeded, the body was written, and it is the JSON of the
\* returned parameters with the provider's tokens in it.
C17_Witness ==
    /\ PassedChecks
    /\ Len(calls) = 1
    /\ calls[1].result.err = NoErr
    /\ req.env.writeOK
    /\ rsp.status = StatusOK
    /\ IsJSONOf(rsp.body, calls[1].result.params)
    /\ Contains(rsp.body, IDToken)

\* C18: every callback writes exactly one status, 403, 400 or 200, and
\* none after it; a callback that failed a check goes no further.
C18_OneStatus ==
    ServedKubeCfg =>
        /\ rsp.headerWrites \in {<<StatusForbidden>>, <<StatusBadRequest>>, <<StatusOK>>}
        /\ rsp.status = rsp.headerWrites[1]
        /\ ~PassedChecks => calls = <<>>

----------------------------------------------------------------------------
(* C19, C20: the steps of Process *)

Processed == pOut.pc = "done"

StepOrder == <<"exchange", "id_token", "verify", "claims", "domain">>

\* Whether a step of Process passes against the provider of the study
StepPasses(step) ==
    CASE step = "exchange" -> pIn.env.exchangeOK
      [] step = "id_token" -> IsString(pIn.idKind)
      [] step = "verify"   -> pIn.env.verifyOK
      [] step = "claims"   -> pIn.env.claimsOK
      [] step = "domain"   -> \/ pIn.o.emailDomain = <<>>
                              \/ HasSuffix(pIn.env.claims["email"],
                                           <<"@">> \o pIn.o.emailDomain)

\* C19: when the token response of a successful exchange has no id_token
\* that is a string, Process fails with ErrMissingIDToken, returns no
\* parameters, and the verifier is never called.
C19_MissingIDToken ==
    (Processed /\ pIn.env.exchangeOK /\ ~IsString(pIn.idKind)) =>
        /\ pOut.result.err = <<"response missing ID token">>
        /\ pOut.result.params = NilParams
        /\ ~SeqContains(pOut.result.steps, "verify")

\* The field is there but is not a string, and the verifier would have
\* accepted a token
C19_Witness ==
    /\ Processed
    /\ pIn.env.exchangeOK /\ pIn.idKind = "number" /\ pIn.env.verifyOK
    /\ pOut.result.steps = <<"exchange", "id_token">>
    /\ pOut.result.params = NilParams

\* C20: Process runs exchange, identity-token presence, verification,
\* claims decoding and the email-domain policy in that order, stops at the
\* first failing step, and returns parameters only when the verifier
\* accepted the identity token.
C20_StepOrder ==
    Processed =>
        LET out == pOut.result
            n == Len(out.steps)
        IN /\ n \in 1..Len(StepOrder)
           /\ out.steps = SubSeq(StepOrder, 1, n)
           /\ \A i \in 1..(n - 1) : StepPasses(out.steps[i])
           /\ n < Len(StepOrder) => ~StepPasses(out.steps[n])
           /\ out.err # NoErr <=> ~StepPasses(out.steps[n])
           /\ out.params # NilParams =>
                 /\ SeqContains(out.steps, "verify")
                 /\ pIn.env.verifyOK
                 /\ out.err = NoErr

\* Verification failed although the claims and the domain would have
\* passed: Process stopped there without parameters
C20_Witness ==
    /\ Processed
    /\ ~pIn.env.verifyOK /\ pIn.env.claimsOK /\ StepPasses("domain")
    /\ pOut.result.steps = <<"exchange", "id_token", "verify">>
    /\ pOut.result.params = NilParams
    /\ pOut.result.err # NoErr

----------------------------------------------------------------------------
(* C21: where the returned parameters come from *)

\* C21: on every successful Process, whatever claims the identity token
\* carries, ClientID and ClientSecret are those of the request config,
\* IDToken is the raw identity token of the token response, RefreshToken
\* is the response's refresh token, and IssuerURL is the verified issuer.
C21_ParamsFromConfigAndToken ==
    (Processed /\ pOut.result.err = NoErr) =>
        LET p == pOut.result.params
        IN /\ p["clientID"] = pIn.cfg.ClientID
           /\ p["clientSecret"] = pIn.cfg.ClientSecret
           /\ p["idToken"] = pIn.env.idToken
           /\ p["refreshToken"] = pIn.env.refreshToken
           /\ p["issuer"] = pIn.env.issuer

----------------------------------------------------------------------------
(* C22: the email-domain policy *)

\* The served callback ran Process up to the email-domain policy
ReachedPolicy ==
    /\ ServedKubeCfg
    /\ Len(calls) = 1
    /\ SeqContains(calls[1].result.steps, "domain")

\* The username claim of the identity token ends with "@" and the domain
EndsWithAtDomain(username, domain) ==
    /\ Len(username) >= Len(domain) + 1
    /\ username[Len(username) - Len(domain)] = "@"
    /\ \A i \in 1..Len(domain) :
          username[Len(username) - Len(domain) + i] = domain[i]

\* C22: with an email domain D configured, Process succeeds only if the
\* username claim ends with "@" and D, and otherwise fails without
\* parameters, which the callback reports as 403; with no domain
\* configured no username, the empty one included, is rejected.
C22_EmailDomainPolicy ==
    ReachedPolicy =>
        LET D == h[req.inst].e.emailDomain
            u == req.env.claims["email"]
            out == calls[1].result
        IN /\ (D # <<>> /\ out.err = NoErr) => EndsWithAtDomain(u, D)
           /\ (D # <<>> /\ ~EndsWithAtDomain(u, D)) =>
                 /\ out.err # NoErr
                 /\ out.params = NilParams
                 /\ rsp.status = StatusForbidden
           /\ D = <<>> => out.err = NoErr

\* A username that ends with the domain but not with "@" and the domain
\* was refused
C22_Witness ==
    /\ ReachedPolicy
    /\ h[req.inst].e.emailDomain = <<"b">>
    /\ req.env.claims["email"] = <<"a", "@", "a", "b">>
    /\ calls[1].result.err # NoErr
    /\ calls[1].result.params = NilParams
    /\ rsp.status = StatusForbidden

----------------------------------------------------------------------------
(* C23: cancellation of the request's context *)

\* The served callback reached Process and its context was cancelled
\* while step was in flight
CancelledDuring(step) ==
    /\ ServedKubeCfg
    /\ Len(calls) = 1
    /\ req.env.cancel = step

NoCredentialsEmitted ==
    /\ rsp.status # StatusOK
    /\ ~Contains(rsp.body, IDToken)
    /\ ~Contains(rsp.body, RefreshToken)
    /\ ~Contains(rsp.body, h[req.inst].cfg.ClientSecret)

\* C23: the exchange and the verification run under the request's
\* context: when it is cancelled while either is in flight the operation
\* is aborted, Process returns an error, and the callback ends without
\* emitting credentials.
C23_CancellationAborts ==
    /\ CancelledDuring("exchange") =>
          /\ calls[1].result.steps = <<"exchange">>
          /\ calls[1].result.err # NoErr
          /\ calls[1].result.params = NilParams
          /\ NoCredentialsEmitted
    /\ CancelledDuring("verify") =>
          /\ calls[1].result.steps = <<"exchange", "id_token", "verify">>
          /\ calls[1].result.err # NoErr
          /\ calls[1].result.params = NilParams
          /\ NoCredentialsEmitted

\* The provider would have answered with verified tokens, the context was
\* cancelled during the exchange, and the callback ended with 403
C23_Witness ==
    /\ CancelledDuring("exchange")
    /\ req.env.exchangeOK /\ req.env.verifyOK
    /\ calls[1].result.steps = <<"exchange">>
    /\ Contains(calls[1].result.err, ErrCanceled)
    /\ rsp.status = StatusForbidden

----------------------------------------------------------------------------
(* C24 - C27: the configuration Template generates *)

ServedTemplate == treq.kind = "Template"

\* A configuration was generated for the served Template request
Generated == ServedTemplate /\ trsp.config # NoConfig

\* The username of the request: its email parameter
RequestUsername == IF "email" \in DOMAIN treq.form THEN treq.form["email"] ELSE <<>>

\* C24: for a template with N clusters and request username U, the
\* generated configuration has exactly N contexts, every context's
\* AuthInfo is U, and there is exactly one AuthInfo entry, keyed by U.
C24_ContextsAndAuthInfo ==
    Generated =>
        /\ Cardinality(DOMAIN trsp.config.Contexts) = Cardinality(DOMAIN tmpl.cfg.Clusters)
        /\ \A n \in DOMAIN trsp.config.Contexts :
              trsp.config.Contexts[n].AuthInfo = RequestUsername
        /\ DOMAIN trsp.config.AuthInfos = {RequestUsername}

\* The document of the served Template request went out whole
DocumentWritten ==
    /\ ServedTemplate
    /\ trsp.rsp.headerWrites = <<StatusOK>>

\* C25: for every cluster name n of the template the generated
\* configuration has cluster n with the template's connection info and a
\* context n whose Cluster is n, and it has no cluster or context under
\* another name.
C25_ClustersAndContexts ==
    Generated =>
        /\ DOMAIN trsp.config.Clusters = DOMAIN tmpl.cfg.Clusters
        /\ DOMAIN trsp.config.Contexts = DOMAIN tmpl.cfg.Clusters
        /\ \A n \in DOMAIN tmpl.cfg.Clusters :
              /\ trsp.config.Clusters[n] = tmpl.cfg.Clusters[n]
              /\ trsp.config.Contexts[n].Cluster = n
              /\ DocumentWritten =>
                    /\ Contains(trsp.rsp.body,
                                <<"- name:">> \o n \o <<"server:">>
                                   \o tmpl.cfg.Clusters[n].Server)
                    /\ Contains(trsp.rsp.body,
                                <<"- name:">> \o n \o <<"cluster:">> \o n)

\* A template with two clusters was rendered and written
C25_Witness ==
    /\ Generated
    /\ DocumentWritten
    /\ DOMAIN tmpl.cfg.Clusters = {<<"a">>, <<"b">>}
    /\ trsp.config.Contexts[<<"b">>].Cluster = <<"b">>

\* C26: the generated configuration's current context equals the
\* template's current context, set or empty.
C26_CurrentContext ==
    Generated => trsp.config.CurrentContext = tmpl.cfg.CurrentContext

\* A template cluster with neither inline CA data nor a CA file
IsBare(cl) == cl.CertificateAuthorityData = <<>> /\ cl.CertificateAuthority = <<>>

\* C27: a template cluster with neither CA data nor a CA file gets the
\* contents of the well-known CA file as its CA data when the file is
\* readable, and is emitted unchanged when it is not; rendering succeeds
\* either way.
C27_CABackfill ==
    (Generated /\ treq.env.marshalOK) =>
        /\ trsp.rsp.status = StatusOK
        /\ \A n \in DOMAIN tmpl.cfg.Clusters :
              IsBare(tmpl.cfg.Clusters[n]) =>
                 /\ tmpl.ca.readable =>
                       trsp.config.Clusters[n].CertificateAuthorityData = tmpl.ca.data
                 /\ ~tmpl.ca.readable =>
                       trsp.config.Clusters[n] = tmpl.cfg.Clusters[n]

----------------------------------------------------------------------------
(* C28: the statuses of Template *)

\* Every parameter of the request is one the handler knows
QueryDecodes ==
    DOMAIN treq.form \subseteq
        {"email", "clientID", "clientSecret", "idToken", "refreshToken", "issuer"}

IsYAMLType(ctype) == ctype \in {"text/x-yaml", "text/x-yaml; charset=utf-8"}

CarriesDocument(body) == Contains(body, <<"kind: Config">>)

\* C28: Template answers 400 when the query cannot be decoded, 500 when
\* serialization fails, and otherwise 200 with Content-Type text/x-yaml and
\* Content-Disposition attachment; on the 400 and 500 paths no
\* configuration document is written.
C28_TemplateStatuses ==
    ServedTemplate =>
        /\ ~QueryDecodes =>
              trsp.rsp.status = StatusBadRequest /\ ~CarriesDocument(trsp.rsp.body)
        /\ (QueryDecodes /\ ~treq.env.marshalOK) =>
              /\ trsp.rsp.status = StatusInternalServerError
              /\ ~CarriesDocument(trsp.rsp.body)
        /\ (QueryDecodes /\ treq.env.marshalOK) =>
              /\ trsp.rsp.status = StatusOK
              /\ IsYAMLType(trsp.rsp.ctype)
              /\ trsp.rsp.disposition = "attachment"

\* Serialization failed and the answer was 500 without a document
C28_Witness ==
    /\ ServedTemplate
    /\ QueryDecodes
    /\ ~treq.env.marshalOK
    /\ trsp.rsp.status = StatusInternalServerError
    /\ ~CarriesDocument(trsp.rsp.body)

----------------------------------------------------------------------------
(* C29: from the callback's body to the kubecfg *)

\* The served Template request echoes the body of the callback before it
Echoed == ServedTemplate /\ treq.echo /\ ServedKubeCfg /\ Len(calls) = 1

\* C29: when the JSON body of a successful callback is echoed field for
\* field as the query of the Template request, the generated AuthInfo's
\* oidc block carries client-id, client-secret, id-token, refresh-token and
\* idp-issuer-url equal to the handshake's clientID, clientSecret, idToken,
\* refreshToken and issuer, and the username equals its email.
C29_CallbackToTemplate ==
    Echoed =>
        /\ trsp.config # NoConfig
        /\ Cardinality(DOMAIN trsp.config.AuthInfos) = 1
        /\ \A u \in DOMAIN trsp.config.AuthInfos :
              LET a == trsp.config.AuthInfos[u]
                  P == calls[1].result.params
              IN /\ a.AuthProvider.Name = <<"oidc">>
                 /\ a.AuthProvider.Config[<<"client-id">>] = P["clientID"]
                 /\ a.AuthProvider.Config[<<"client-secret">>] = P["clientSecret"]
                 /\ a.AuthProvider.Config[<<"id-token">>] = P["idToken"]
                 /\ a.AuthProvider.Config[<<"refresh-token">>] = P["refreshToken"]
                 /\ a.AuthProvider.Config[<<"idp-issuer-url">>] = P["issuer"]
                 /\ a.Username = P["email"]

\* The handshake's tokens arrived in the generated AuthInfo
C29_Witness ==
    /\ Echoed
    /\ trsp.config # NoConfig
    /\ trsp.config.AuthInfos[<<"kuberos">>].AuthProvider.Config[<<"id-token">>] = IDToken
    /\ trsp.config.AuthInfos[<<"kuberos">>].Username = <<"a", "@", "b">>
    /\ trsp.rsp.status = StatusOK

----------------------------------------------------------------------------
(* C32, C33, C36: the redirect URL *)

\* C32: for a request with a non-absolute URL, the redirect URL sent to
\* the provider has scheme https if and only if the request arrived over
\* TLS or some X-Forwarded-Proto value equals https (http otherwise), host
\* equal to the request's Host, and the fixed callback path.
C32_RedirectURL ==
    rd.pc = "out" =>
        \A leg \in {<<rd.login, rd.advertised>>, <<rd.callback, rd.exchanged>>} :
            ~leg[1].url.abs =>
                /\ leg[2].scheme \in {"http", "https"}
                /\ leg[2].scheme = "https" <=>
                       (leg[1].tls \/ \E i \in 1..Len(leg[1].xfp) :
                                         leg[1].xfp[i] = "https")
                /\ leg[2].host = leg[1].host
                /\ leg[2].path = <<"/ui">>

\* A plain-HTTP Login behind a proxy that forwards http and https
C32_Witness ==
    /\ rd.pc = "out"
    /\ ~rd.login.url.abs
    /\ ~rd.login.tls
    /\ rd.login.xfp = <<"http", "https">>
    /\ rd.advertised = [scheme |-> "https", host |-> rd.login.host, path |-> <<"/ui">>]

\* C33: with a forwarded-prefix header the redirect URL's path is the
\* prefix joined with the fixed callback path; without it the path is the
\* callback path alone.
C33_ForwardedPrefix ==
    rd.pc = "out" =>
        \A leg \in {<<rd.login, rd.advertised>>, <<rd.callback, rd.exchanged>>} :
            leg[2].path = leg[1].xfprefix \o <<"/ui">>

\* C36: the redirect_uri Login advertises and the RedirectURL the callback
\* passes to the exchange are equal whenever the two requests agree on
\* Host, TLS state and X-Forwarded-Proto, and neither is the RedirectURL of
\* the configuration NewHandlers was given.
C36_SameRedirectBothLegs ==
    rd.pc = "out" =>
        /\ (/\ rd.login.host = rd.callback.host
            /\ rd.login.tls = rd.callback.tls
            /\ rd.login.xfp = rd.callback.xfp) => rd.advertised = rd.exchanged
        /\ rd.advertised # h[1].cfg.RedirectURL
        /\ rd.exchanged # h[1].cfg.RedirectURL

\* C36, amended: the two are equal whenever the requests agree on Host, TLS
\* state, X-Forwarded-Proto and the scheme and host of an absolute request
\* URL (or on having none); neither is the configuration's RedirectURL.
C36_SameRedirectSameURL ==
    rd.pc = "out" =>
        /\ (/\ rd.login.host = rd.callback.host
            /\ rd.login.tls = rd.callback.tls
            /\ rd.login.xfp = rd.callback.xfp
            /\ rd.login.url = rd.callback.url) => rd.advertised = rd.exchanged
        /\ rd.advertised # h[1].cfg.RedirectURL
        /\ rd.exchanged # h[1].cfg.RedirectURL

\* Both legs behind the same TLS-terminating proxy got the same https URL
C36_Witness ==
    /\ rd.pc = "out"
    /\ rd.login.host = rd.callback.host
    /\ rd.login.tls = rd.callback.tls
    /\ rd.login.xfp = <<"https">>
    /\ rd.callback.xfp = <<"https">>
    /\ rd.login.url = rd.callback.url
    /\ ~rd.login.url.abs
    /\ rd.advertised = rd.exchanged
    /\ rd.exchanged.scheme = "https"

----------------------------------------------------------------------------
(* C35: the client address of the default state function *)

\* C35: the default state function resolves the client address to the last
\* X-Forwarded-For value when the header is supplied and to the remote
\* address otherwise: with the header present and unchanged a changed
\* remote address yields the same token, and so does any header with the
\* same last value; with the header absent any changed remote address
\* yields another token.
C35_ResolvedClientAddress ==
    fnReq.applied =>
        \A a \in Str \ {<<>>} :
            LET moved == [fnReq.r EXCEPT !.remoteAddr = a]
            IN /\ Len(fnReq.r.xff) > 0 =>
                    /\ defaultStateFn(fnSecret, moved) = fnTok
                    /\ \A x \in XFFUpTo(MaxXFF) :
                          (Len(x) > 0 /\ x[Len(x)] = fnReq.r.xff[Len(fnReq.r.xff)])
                             => defaultStateFn(fnSecret, [moved EXCEPT !.xff = x]) = fnTok
               /\ (Len(fnReq.r.xff) = 0 /\ a # fnReq.r.remoteAddr) =>
                    defaultStateFn(fnSecret, moved) # fnTok

\* A token made behind a proxy survives the move to another remote address
C35_Witness ==
    /\ fnReq.applied
    /\ Len(fnReq.r.xff) = 2
    /\ fnReq.r.remoteAddr = <<"a">>
    /\ fnReq.r.xff[2] # <<"a">>
    /\ defaultStateFn(fnSecret, [fnReq.r EXCEPT !.remoteAddr = <<"b">>]) = fnTok
    /\ fnTok # fnTokRemote

----------------------------------------------------------------------------
(* C37: Get leaves the lists it shares alone *)

\* C37: after any interleaving of Get calls on any receivers, DefaultScopes
\* is unchanged, the list an earlier call returned is as it was returned,
\* and every call returns what its receiver alone determines.
C37_GetIsPure ==
    mem.pc = "on" =>
        /\ mem.dflt.arr = 1
        /\ mem.dflt.len = 3
        /\ SliceRead(mem.arrays, mem.dflt) = <<"openid", "profile", "email">>
        /\ \A c \in 1..MaxGets :
              mem.gets[c].pc = "done" =>
                 /\ SliceRead(mem.arrays, mem.gets[c].result) = mem.gets[c].returned
                 /\ mem.gets[c].returned = Get(mem.gets[c].r)

\* Two calls have returned: one without offline_access and with extra scopes
\* and one whose list is DefaultScopes itself
C37_Witness ==
    /\ mem.pc = "on"
    /\ \E c1 \in 1..MaxGets, c2 \in 1..MaxGets :
          /\ c1 # c2
          /\ mem.gets[c1].pc = "done"
          /\ mem.gets[c2].pc = "done"
          /\ ~mem.gets[c1].r.OfflineAsScope
          /\ mem.gets[c1].returned = <<"openid", "profile", "email", "groups">>
          /\ mem.gets[c2].result = mem.dflt

----------------------------------------------------------------------------
(* C34, C38, C39: shutdown *)

\* C34: the grace deadline is the grace period after the shutdown trigger,
\* so it has not expired when shutdown is requested, and the shutdown does
\* not give up on a request in flight before that period has passed.
C34_GraceFromTrigger ==
    srv.pc = "on" =>
        \A i \in 0..MaxQuits :
            srv.g[i].pc # "idle" =>
                /\ srv.deadline = srv.g[i].at + Grace
                /\ ~srv.g[i].early

\* C38: whatever SIGTERMs and GETs to the shutdown endpoint arrive, the
\* done channel is closed at most once and nothing panics.
C38_ShutdownOnce ==
    srv.pc = "on" => (srv.closes <= 1 /\ ~srv.panicked)

\* C39: once the HTTP server has stopped serving, after a shutdown or
\* through an error of ListenAndServe, the process eventually exits.
C39_ExitsOnceStopped ==
    (srv.pc = "on" /\ srv.main # "serve")
        ~> (srv.main = "exited" \/ srv.panicked)

----------------------------------------------------------------------------
(* C31: the shared state under concurrent requests *)

\* C31: after any interleaving of concurrent Login, callback and Template
\* requests the handler sets, their oauth2 configuration with its scope
\* list, and the cluster template with every cluster's CA data are as at
\* start-up, and each request in flight holds a config of its own, built
\* for its own request.
C31_SharedStateReadOnly ==
    conc.pc = "on" =>
        /\ h = conc.boot.h
        /\ \A i \in DOMAIN h : h[i].cfg.Scopes = conc.boot.h[i].cfg.Scopes
        /\ tmpl = conc.boot.tmpl
        /\ \A n \in DOMAIN tmpl.cfg.Clusters :
              tmpl.cfg.Clusters[n].CertificateAuthorityData =
                 conc.boot.tmpl.cfg.Clusters[n].CertificateAuthorityData
        /\ \A s \in 1..MaxConcurrent :
              LET q == conc.slots[s]
              IN /\ q.kind \in {"Login", "KubeCfg"} =>
                      /\ q.own.RedirectURL.scheme =
                            (IF q.input.tls THEN "https" ELSE "http")
                      /\ q.own.Scopes = conc.boot.h[q.inst].cfg.Scopes
                      /\ q.own.ClientSecret = conc.boot.h[q.inst].cfg.ClientSecret
                 /\ q.kind = "Template" =>
                      /\ \A u \in DOMAIN q.own.AuthInfos :
                            q.own.AuthInfos[u].Username = q.input.form["email"]
                      /\ DOMAIN q.own.Clusters = DOMAIN conc.boot.tmpl.cfg.Clusters

\* A Login over TLS and a Template request are in flight together, over a
\* template with a cluster without CA data and a readable CA file
C31_Witness ==
    /\ conc.pc = "on"
    /\ \E s1 \in 1..MaxConcurrent, s2 \in 1..MaxConcurrent :
          /\ conc.slots[s1].kind = "Login"
          /\ conc.slots[s1].input.tls
          /\ conc.slots[s2].kind = "Template"
    /\ tmpl.ca.readable
    /\ \E n \in DOMAIN tmpl.cfg.Clusters :
          /\ tmpl.cfg.Clusters[n].CertificateAuthorityData = <<>>
          /\ tmpl.cfg.Clusters[n].CertificateAuthority = <<>>
    /\ tmpl = conc.boot.tmpl

====
